---------------------------- MODULE Spec2Model ----------------------------
(***************************************************************************)
(* Verification model of the discovery core of project-code:               *)
(*   - GitignoreParser        (pattern engine)                             *)
(*   - GitignoreCacheManager  (ignore-file cache)                          *)
(*   - ProjectDiscoveryService (scanner, hierarchy builder)                *)
(* Strings are sequences of one-character strings, so that prefix tests,   *)
(* path joins and glob-to-regex translation are computed, not assumed.     *)
(***************************************************************************)
EXTENDS Integers, Sequences, FiniteSets, TLC

VARIABLES
    \* --- pattern engine harness (GitignoreParser.matchPath) ---
    mPath,        \* candidate path handed to matchPath
    mPatterns,    \* ordered GitignorePattern list handed to matchPath
    mEnabled,     \* options.enabled
    mResult,      \* Some(GitignoreMatchResult) of the last call, or None
    \* --- ignore-file cache (GitignoreCacheManager) and its environment ---
    now,          \* Date.now(), milliseconds
    disk,         \* path -> [exists, readable, mtime, content]: the .gitignore files;
                  \* directory -> [exists, readable] for the directories that can fail
    cache,        \* cache.files / cache.lastUpdated, in Map insertion order
    options,      \* this.options: cacheEnabled, cacheSize, cacheTTL
    hitCount,     \* cache.hitCount
    missCount,    \* cache.missCount
    parsed,       \* the caller's local gitignoreFile between parse and set
    lastOp,       \* the cache operation that produced the current state
    steps,        \* operations performed on the cache and its files so far
    \* --- scanner (ProjectDiscoveryService.discoverProjects) ---
    config,       \* Some(effective rootFolders, excludePatterns, gitignore options)
    scan,         \* the discoverProjects call in progress
    runs,         \* completed discoverProjects calls: arguments and result
    \* --- hierarchy builder (buildProjectHierarchy) ---
    hInput,       \* the ProjectInfo list (paths) handed to buildProjectHierarchy
    hNodes,       \* Some(node table) it built, or None
    hOut,         \* Some(operation applied to the built tree, with its result), or None
    \* --- ignore-file parser (GitignoreParser.parseGitignoreContent) ---
    pContent,     \* the content handed to parseGitignoreContent
    pPatterns,    \* Some(the patterns it returned), or None
    \* --- classifier (ProjectDiscoveryService.analyzeDirectory) ---
    cFiles,       \* the file names of the directory handed to analyzeDirectory
    cPkg,         \* what reading its package.json gives
    cResult       \* Some(what analyzeDirectory returned), or None

vars == <<mPath, mPatterns, mEnabled, mResult,
          now, disk, cache, options, hitCount, missCount, parsed, lastOp, steps,
          config, scan, runs, hInput, hNodes, hOut,
          pContent, pPatterns, cFiles, cPkg, cResult>>

matchVars == <<mPath, mPatterns, mEnabled, mResult>>
cacheVars == <<now, disk, cache, options, hitCount, missCount, parsed, lastOp, steps>>
scanVars  == <<config, scan, runs>>
hierVars  == <<hInput, hNodes, hOut>>
parseVars == <<pContent, pPatterns>>
classVars == <<cFiles, cPkg, cResult>>

\* an absent value and a present one: null / undefined against an object
None == <<>>
Some(x) == <<x>>

-----------------------------------------------------------------------------
(* Strings                                                                 *)

\* String.prototype.startsWith
StartsWith(s, p) ==
    /\ Len(p) <= Len(s)
    /\ \A i \in 1..Len(p) : s[i] = p[i]

\* String.prototype.endsWith, for a one-character suffix
EndsWithChar(s, c) == Len(s) > 0 /\ s[Len(s)] = c

\* str.replaceAll('\\', '/')
ReplaceBackslash(s) == [i \in 1..Len(s) |-> IF s[i] = "\\" THEN "/" ELSE s[i]]

\* index of the last c in s, 0 when there is none
LastIndexOf(s, c) ==
    IF \E i \in 1..Len(s) : s[i] = c
    THEN CHOOSE i \in 1..Len(s) : s[i] = c /\ \A j \in (i+1)..Len(s) : s[j] # c
    ELSE 0

\* node:path join(a, name) for a normalised absolute a and a plain name
JoinPath(a, name) == IF a = <<"/">> THEN a \o name ELSE a \o <<"/">> \o name

-----------------------------------------------------------------------------
(* Regular expressions, as far as the generated ones use them.  A regex    *)
(* source is a sequence of tokens [c, e]: the character (or the class      *)
(* "[^/]" as one token) and whether a backslash escapes it.                *)

RegexSpecial == {".", "+", "^", "$", "{", "}", "(", ")", "|", "[", "]", "\\"}

Raw(c) == [c |-> c, e |-> FALSE]
NonSepClass == "[^/]"

\* pattern.replaceAll(/[.+^${}()|[\]\\]/g, String.raw`\$&`)
EscapeRegex(pattern) ==
    [i \in 1..Len(pattern) |-> [c |-> pattern[i], e |-> pattern[i] \in RegexSpecial]]

\* does the unescaped text f occur in s at its head
TokenPrefix(s, f) ==
    /\ Len(f) <= Len(s)
    /\ \A i \in 1..Len(f) : s[i] = Raw(f[i])

\* String.prototype.replaceAll(f, r): left to right, non-overlapping, and
\* the replacement text is not scanned again
RECURSIVE ReplaceAll(_, _, _)
ReplaceAll(s, f, r) ==
    IF Len(s) = 0 THEN <<>>
    ELSE IF TokenPrefix(s, f)
         THEN r \o ReplaceAll(SubSeq(s, Len(f) + 1, Len(s)), f, r)
         ELSE <<Head(s)>> \o ReplaceAll(Tail(s), f, r)

\* new RegExp(source): atoms [k, c, star]; a raw "*" quantifies the atom before it
AtomOf(t) ==
    IF t.e THEN [k |-> "lit", c |-> t.c]
    ELSE IF t.c = "." THEN [k |-> "any", c |-> ""]
    ELSE IF t.c = NonSepClass THEN [k |-> "nonsep", c |-> ""]
    ELSE [k |-> "lit", c |-> t.c]

RECURSIVE CompileRegex(_)
CompileRegex(src) ==
    IF Len(src) = 0 THEN <<>>
    ELSE IF Len(src) >= 2 /\ src[2] = Raw("*")
         THEN <<[a |-> AtomOf(src[1]), star |-> TRUE]>>
              \o CompileRegex(SubSeq(src, 3, Len(src)))
         ELSE <<[a |-> AtomOf(src[1]), star |-> FALSE]>> \o CompileRegex(Tail(src))

AtomAccepts(a, ch) ==
    CASE a.k = "lit"    -> ch = a.c
      [] a.k = "any"    -> TRUE
      [] a.k = "nonsep" -> ch # "/"

\* the anchored match ^...$ of atoms[i..] against s[j..]
RECURSIVE MatchFrom(_, _, _, _)
MatchFrom(atoms, i, s, j) ==
    IF i > Len(atoms) THEN j > Len(s)
    ELSE IF atoms[i].star
         THEN \/ MatchFrom(atoms, i + 1, s, j)
              \/ /\ j <= Len(s)
                 /\ AtomAccepts(atoms[i].a, s[j])
                 /\ MatchFrom(atoms, i, s, j + 1)
         ELSE /\ j <= Len(s)
              /\ AtomAccepts(atoms[i].a, s[j])
              /\ MatchFrom(atoms, i + 1, s, j + 1)

\* new RegExp('^' + source + '$').test(s)
RegexTest(src, s) == \E atoms \in {CompileRegex(src)} : MatchFrom(atoms, 1, s, 1)

-----------------------------------------------------------------------------
(* GitignoreParser: matching                                               *)

DIRECTORY_SEPARATOR == "/"

normalizePath(filePath) == ReplaceBackslash(filePath)
normalizePattern(pattern) == ReplaceBackslash(pattern)

\* pattern.includes('**')
IncludesDoubleStar(pattern) ==
    \E i \in 1..(Len(pattern) - 1) : pattern[i] = "*" /\ pattern[i + 1] = "*"

patternToRegex(pattern) ==
    ReplaceAll(
      ReplaceAll(
        ReplaceAll(EscapeRegex(pattern), <<"*", "*">>, <<Raw("."), Raw("*")>>),
        <<"*">>, <<Raw(NonSepClass), Raw("*")>>),
      <<"?">>, <<Raw(NonSepClass)>>)

simplePatternToRegex(pattern) ==
    ReplaceAll(
      ReplaceAll(EscapeRegex(pattern), <<"*">>, <<Raw("."), Raw("*")>>),
      <<"?">>, <<Raw(".")>>)

matchDoubleWildcard(path, pattern) == RegexTest(patternToRegex(pattern), path)

matchSimpleWildcard(path, pattern) == RegexTest(simplePatternToRegex(pattern), path)

matchGlobPattern(path, pattern) ==
    IF IncludesDoubleStar(pattern)
    THEN matchDoubleWildcard(path, pattern)
    ELSE matchSimpleWildcard(path, pattern)

\* a matchDirectoryPattern that looks for the directory name anywhere in the path
matchDirectoryPatternAnywhere(path, pattern) ==
    \E i \in 0..(Len(path) - (Len(pattern) - 1)) :
        SubSeq(path, i + 1, i + Len(pattern) - 1) = SubSeq(pattern, 1, Len(pattern) - 1)

matchDirectoryPattern(path, pattern) ==
    LET cleanPattern == SubSeq(pattern, 1, Len(pattern) - 1)
    IN  \/ path = cleanPattern
        \/ StartsWith(path, cleanPattern \o <<DIRECTORY_SEPARATOR>>)

\* pattern is a GitignorePattern [pattern, negated]
patternMatches(filePath, pattern) ==
    LET normalizedPath == normalizePath(filePath)
        normalizedPattern == normalizePattern(pattern.pattern)
    IN  IF EndsWithChar(pattern.pattern, DIRECTORY_SEPARATOR)
        THEN matchDirectoryPattern(normalizedPath, normalizedPattern)
        ELSE matchGlobPattern(normalizedPath, normalizedPattern)

\* the loop of matchPath from pattern i on, carrying excluded and
\* lastMatchingPattern
RECURSIVE matchPathLoop(_, _, _, _, _)
matchPathLoop(filePath, patterns, i, excluded, lastMatchingPattern) ==
    IF i > Len(patterns)
    THEN [excluded |-> excluded, matchedBy |-> lastMatchingPattern]
    ELSE IF patternMatches(filePath, patterns[i])
         THEN IF patterns[i].negated
              THEN matchPathLoop(filePath, patterns, i + 1, FALSE, lastMatchingPattern)
              ELSE matchPathLoop(filePath, patterns, i + 1, TRUE, Some(patterns[i]))
         ELSE matchPathLoop(filePath, patterns, i + 1, excluded, lastMatchingPattern)

\* a matchPath whose negated patterns never re-include a path
matchPathNoReinclude(filePath, patterns, enabled) ==
    IF ~enabled THEN [excluded |-> FALSE, matchedBy |-> None]
    ELSE [excluded |-> \E i \in 1..Len(patterns) :
                          ~patterns[i].negated /\ patternMatches(filePath, patterns[i]),
          matchedBy |-> None]

matchPath(filePath, patterns, enabled) ==
    IF ~enabled THEN [excluded |-> FALSE, matchedBy |-> None]
    ELSE matchPathLoop(filePath, patterns, 1, FALSE, None)

-----------------------------------------------------------------------------
(* GitignoreCacheManager.  The cache is the pair of Maps files and         *)
(* lastUpdated; both always hold the same keys in the same insertion       *)
(* order, so it is one sequence of entries [path, file, cachedAt].         *)

MsPerSecond == 1000

CacheIndex(c, filePath) ==
    IF \E i \in 1..Len(c) : c[i].path = filePath
    THEN CHOOSE i \in 1..Len(c) : c[i].path = filePath
    ELSE 0

CachedPaths(c) == {c[i].path : i \in 1..Len(c)}

RemoveAt(c, i) == SubSeq(c, 1, i - 1) \o SubSeq(c, i + 1, Len(c))

\* statSync(filePath).mtime > cachedTime, true when statSync throws
FileExists(d, filePath) == filePath \in DOMAIN d /\ d[filePath].exists

isFileModified(d, filePath, cachedTime) ==
    IF FileExists(d, filePath) THEN d[filePath].mtime > cachedTime ELSE TRUE

\* files.delete(filePath); lastUpdated.delete(filePath)
invalidate(c, filePath) ==
    IF CacheIndex(c, filePath) = 0 THEN c ELSE RemoveAt(c, CacheIndex(c, filePath))

\* the entry evictOldest() picks: the first, in Map order, of those with the
\* least lastUpdated (the loop replaces its candidate only on time < oldestTime)
OldestIndex(c) ==
    CHOOSE i \in 1..Len(c) :
        /\ \A j \in 1..Len(c) : c[i].cachedAt <= c[j].cachedAt
        /\ \A j \in 1..(i - 1) : c[j].cachedAt > c[i].cachedAt

\* an eviction that removes the most recently stored entry instead
evictNewest(c) ==
    IF Len(c) = 0 THEN c
    ELSE RemoveAt(c, CHOOSE i \in 1..Len(c) :
                        \A j \in 1..Len(c) : c[i].cachedAt >= c[j].cachedAt)

evictOldest(c) == IF Len(c) = 0 THEN c ELSE RemoveAt(c, OldestIndex(c))

\* Map.prototype.set on both Maps: an existing key keeps its place
MapSet(c, filePath, file, t) ==
    LET e == [path |-> filePath, file |-> file, cachedAt |-> t]
    IN  IF CacheIndex(c, filePath) = 0
        THEN Append(c, e)
        ELSE [c EXCEPT ![CacheIndex(c, filePath)] = e]

\* the shared cache manager; calls is the sequence of get and set calls the
\* running continuation has made on it
Manager(c, opts, hits, misses) ==
    [cache |-> c, options |-> opts, hitCount |-> hits, missCount |-> misses,
     calls |-> <<>>]

\* a get() whose counters both follow every call
afterGetCountsBoth(mgr, g) ==
    [mgr EXCEPT !.cache = g.cache, !.hitCount = @ + 1, !.missCount = @ + 1]

\* the cache manager after get(): the counters follow the outcome
afterGet(mgr, g) ==
    [mgr EXCEPT !.cache = g.cache,
                !.hitCount = IF g.hit THEN @ + 1 ELSE @,
                !.missCount = IF g.hit THEN @ ELSE @ + 1]

\* the cache after set(filePath, gitignoreFile) at time t
set(c, opts, filePath, gitignoreFile, t) ==
    IF ~opts.cacheEnabled THEN c
    ELSE LET c1 == IF opts.cacheSize # 0 /\ Len(c) >= opts.cacheSize
                   THEN evictOldest(c) ELSE c
         IN  MapSet(c1, filePath, gitignoreFile, t)

\* a TTL test that already expires an entry exactly TTL old
TTLExpiredAtOrAfter(opts, cachedAt, t) ==
    opts.cacheTTL > 0 /\ t - cachedAt >= opts.cacheTTL * MsPerSecond

\* the TTL test of get(): cacheTTL > 0 and age > cacheTTL * 1000
TTLExpired(opts, cachedAt, t) ==
    opts.cacheTTL > 0 /\ t - cachedAt > opts.cacheTTL * MsPerSecond

\* get(filePath) at time t: [hit, file, cache]
get(c, opts, d, filePath, t) ==
    LET i == CacheIndex(c, filePath)
        miss(c2) == [hit |-> FALSE, file |-> None, cache |-> c2]
    IN  IF ~opts.cacheEnabled THEN miss(c)
        ELSE IF i = 0 THEN miss(c)
        ELSE IF TTLExpired(opts, c[i].cachedAt, t) THEN miss(invalidate(c, filePath))
        ELSE IF isFileModified(d, filePath, c[i].cachedAt)
             THEN miss(invalidate(c, filePath))
        ELSE [hit |-> TRUE, file |-> Some(c[i].file), cache |-> c]

\* cleanup(): drop every entry whose file is gone or newer than its caching
RECURSIVE cleanupFrom(_, _, _)
cleanupFrom(c, d, i) ==
    IF i > Len(c) THEN <<>>
    ELSE IF isFileModified(d, c[i].path, c[i].cachedAt)
         THEN cleanupFrom(c, d, i + 1)
         ELSE <<c[i]>> \o cleanupFrom(c, d, i + 1)

\* a cleanup() that only drops the entries whose file is gone
cleanupMissingOnly(c, d) == SelectSeq(c, LAMBDA e : FileExists(d, e.path))

cleanup(c, d) == cleanupFrom(c, d, 1)

\* GitignoreParser.parseGitignoreFile: a GitignoreFile [path, lastModified,
\* content, error]; content names the pattern list read from the file
parseGitignoreFile(d, filePath, t) ==
    IF FileExists(d, filePath) /\ d[filePath].readable
    THEN [path |-> filePath, lastModified |-> d[filePath].mtime,
          content |-> d[filePath].content, error |-> FALSE]
    ELSE [path |-> filePath, lastModified |-> t, content |-> 0, error |-> TRUE]

-----------------------------------------------------------------------------
(* The directories and ignore files of the model                           *)

GITIGNORE == <<".", "g", "i", "t", "i", "g", "n", "o", "r", "e">>

DirC    == <<"/", "c">>
DirApp  == JoinPath(DirC, <<"a", "p", "p">>)
DirLib  == JoinPath(DirApp, <<"l", "i", "b">>)

GitignorePathOf(dir) == JoinPath(dir, GITIGNORE)

IgnorePaths == {GitignorePathOf(DirC), GitignorePathOf(DirApp), GitignorePathOf(DirLib)}

\* the ignore files that other processes write, touch or delete
VolatilePaths == {GitignorePathOf(DirApp)}

-----------------------------------------------------------------------------
(* The cache and its environment as a state machine                        *)

MaxGets  == 1   \* get() calls counted by hitCount + missCount
MaxSteps == 7   \* operations in one behaviour of the cache

\* the instants at which something happens: two a millisecond apart, and
\* the same two a second later
ClockValues == {0, 1, MsPerSecond, MsPerSecond + 1}

CacheSizes == {0, 1, 2}   \* cacheSize as configured; 0 is "no limit"
CacheTTLs  == {0, 1}      \* cacheTTL as configured, seconds; 0 is "no TTL"

FileContents == {1}   \* the contents an ignore file is written with

AllOptions ==
    [cacheEnabled : BOOLEAN, cacheSize : CacheSizes, cacheTTL : CacheTTLs]

\* lastOp tells a state reached by get() or set() from every other state
\* and names the paths the call removed from the cache
Op(name, filePath, hit, removed) ==
    [op |-> name, path |-> filePath, hit |-> hit, removed |-> removed]
NoOp == Op("other", <<>>, FALSE, {})

Removed(c, c2) == CachedPaths(c) \ CachedPaths(c2)

\* one more operation within the budget
Budget == steps < MaxSteps /\ steps' = steps + 1

CacheInit ==
    /\ now = 0
    /\ disk = [p \in IgnorePaths |-> [exists |-> TRUE, readable |-> TRUE, mtime |-> 0, content |-> 1]]
    /\ cache = <<>>
    /\ options \in AllOptions
    /\ hitCount = 0
    /\ missCount = 0
    /\ parsed = None
    /\ lastOp = NoOp
    /\ steps = 0

\* the clock advances to a later instant
Tick(t) ==
    /\ Budget
    /\ UNCHANGED <<matchVars, scanVars, hierVars, parseVars, classVars>>
    /\ t > now
    /\ now' = t
    /\ lastOp' = NoOp
    /\ UNCHANGED <<disk, cache, options, hitCount, missCount, parsed>>

\* another process rewrites (or creates) an ignore file
WriteFile(p) ==
    /\ Budget
    /\ UNCHANGED <<matchVars, scanVars, hierVars, parseVars, classVars>>
    /\ \E c \in FileContents :
          disk' = [disk EXCEPT ![p] = [exists |-> TRUE, readable |-> TRUE, mtime |-> now, content |-> c]]
    /\ lastOp' = NoOp
    /\ UNCHANGED <<now, cache, options, hitCount, missCount, parsed>>

\* another process touches an ignore file: new mtime, same content
TouchFile(p) ==
    /\ Budget
    /\ UNCHANGED <<matchVars, scanVars, hierVars, parseVars, classVars>>
    /\ disk[p].exists
    /\ disk' = [disk EXCEPT ![p].mtime = now]
    /\ lastOp' = NoOp
    /\ UNCHANGED <<now, cache, options, hitCount, missCount, parsed>>

\* another process deletes an ignore file
DeleteFile(p) ==
    /\ Budget
    /\ UNCHANGED <<matchVars, scanVars, hierVars, parseVars, classVars>>
    /\ disk[p].exists
    /\ disk' = [disk EXCEPT ![p].exists = FALSE]
    /\ lastOp' = NoOp
    /\ UNCHANGED <<now, cache, options, hitCount, missCount, parsed>>

\* the caller parses the file after a miss (checkGitignore)
Parse(p) ==
    /\ Budget
    /\ UNCHANGED <<matchVars, scanVars, hierVars, parseVars, classVars>>
    /\ parsed' = Some(parseGitignoreFile(disk, p, now))
    /\ lastOp' = NoOp
    /\ UNCHANGED <<now, disk, cache, options, hitCount, missCount>>

\* the caller stores what it parsed, unless the parse failed (checkGitignore)
Set(p) ==
    /\ Budget
    /\ UNCHANGED <<matchVars, scanVars, hierVars, parseVars, classVars>>
    /\ parsed # None
    /\ parsed[1].path = p
    /\ ~parsed[1].error
    /\ cache' = set(cache, options, p, parsed[1], now)
    /\ parsed' = None
    /\ lastOp' = Op("set", p, FALSE, Removed(cache, cache'))
    /\ UNCHANGED <<now, disk, options, hitCount, missCount>>

Get(p) ==
    /\ Budget
    /\ UNCHANGED <<matchVars, scanVars, hierVars, parseVars, classVars>>
    /\ hitCount + missCount < MaxGets
    /\ LET r == get(cache, options, disk, p, now)
           mgr == afterGet(Manager(cache, options, hitCount, missCount), r)
       IN  /\ cache' = mgr.cache
           /\ hitCount' = mgr.hitCount
           /\ missCount' = mgr.missCount
           /\ lastOp' = Op("get", p, r.hit, Removed(cache, r.cache))
    /\ UNCHANGED <<now, disk, options, parsed>>

Invalidate(p) ==
    /\ Budget
    /\ UNCHANGED <<matchVars, scanVars, hierVars, parseVars, classVars>>
    /\ cache' = invalidate(cache, p)
    /\ lastOp' = NoOp
    /\ UNCHANGED <<now, disk, options, hitCount, missCount, parsed>>

\* has(filePath): a query of the keys of the cache that changes nothing
Has(p) ==
    /\ Budget
    /\ UNCHANGED <<matchVars, scanVars, hierVars, parseVars, classVars>>
    /\ lastOp' = NoOp
    /\ UNCHANGED <<now, disk, cache, options, hitCount, missCount, parsed>>

Cleanup ==
    /\ Budget
    /\ UNCHANGED <<matchVars, scanVars, hierVars, parseVars, classVars>>
    /\ cache' = cleanup(cache, disk)
    /\ lastOp' = Op("cleanup", <<>>, FALSE, Removed(cache, cache'))
    /\ UNCHANGED <<now, disk, options, hitCount, missCount, parsed>>

Clear ==
    /\ Budget
    /\ UNCHANGED <<matchVars, scanVars, hierVars, parseVars, classVars>>
    /\ cache' = <<>>
    /\ hitCount' = 0
    /\ missCount' = 0
    /\ lastOp' = Op("clear", <<>>, FALSE, {})
    /\ UNCHANGED <<now, disk, options, parsed>>

\* updateOptions(newOptions): any of the three fields may be replaced
UpdateOptions(newOptions) ==
    /\ Budget
    /\ UNCHANGED <<matchVars, scanVars, hierVars, parseVars, classVars>>
    /\ newOptions # options
    /\ options' = newOptions
    /\ lastOp' = NoOp
    /\ UNCHANGED <<now, disk, cache, hitCount, missCount, parsed>>

CacheNext ==
    \/ \E t \in ClockValues : Tick(t)
    \/ \E p \in VolatilePaths : WriteFile(p)
    \/ \E p \in VolatilePaths : TouchFile(p)
    \/ \E p \in VolatilePaths : DeleteFile(p)
    \/ \E p \in IgnorePaths : Parse(p)
    \/ \E p \in IgnorePaths : Set(p)
    \/ \E p \in IgnorePaths : Get(p)
    \/ \E p \in IgnorePaths : Invalidate(p)
    \/ \E p \in IgnorePaths : Has(p)
    \/ Cleanup
    \/ Clear
    \/ \E o \in AllOptions : UpdateOptions(o)

-----------------------------------------------------------------------------
(* Values of the variables a specification does not use                    *)

MatchIdle == mPath = <<>> /\ mPatterns = <<>> /\ mEnabled = FALSE /\ mResult = None

CacheIdle ==
    /\ now = 0
    /\ disk = [p \in IgnorePaths |-> [exists |-> TRUE, readable |-> TRUE, mtime |-> 0, content |-> 1]]
    /\ cache = <<>>
    /\ options = [cacheEnabled |-> TRUE, cacheSize |-> 0, cacheTTL |-> 0]
    /\ hitCount = 0
    /\ missCount = 0
    /\ parsed = None
    /\ lastOp = NoOp
    /\ steps = 0

ScanIdle == config = None /\ scan = None /\ runs = <<>>

HierIdle == hInput = <<>> /\ hNodes = None /\ hOut = None

ParseIdle == pContent = <<>> /\ pPatterns = None

ClassIdle == cFiles = <<>> /\ cPkg = None /\ cResult = None

\* the components a specification leaves alone
UnitsIdle == ParseIdle /\ ClassIdle

-----------------------------------------------------------------------------
(* SpecMatch: matchPath applied to bounded inputs                          *)

MaxPatterns == 2   \* patterns in the list handed to matchPath

StarLog      == <<"*", ".", "l", "o", "g">>
ImportantLog == <<"i", "m", "p", "o", "r", "t", "a", "n", "t", ".", "l", "o", "g">>
DebugLog     == <<"d", "e", "b", "u", "g", ".", "l", "o", "g">>
BuildSlash   == <<"b", "u", "i", "l", "d", "/">>
Build        == <<"b", "u", "i", "l", "d">>
Readme       == <<"r", "e", "a", "d", "m", "e">>

PatternTexts == {StarLog, ImportantLog, BuildSlash}
MatchPaths   == {ImportantLog, DebugLog, Build, Readme}

Pat(text, negated) == [pattern |-> text, negated |-> negated]

GitignorePatterns == {Pat(t, n) : t \in PatternTexts, n \in BOOLEAN}

SeqsUpTo(S, n) == UNION {[1..k -> S] : k \in 0..n}

MatchInit ==
    /\ mPath \in MatchPaths
    /\ mPatterns \in SeqsUpTo(GitignorePatterns, MaxPatterns)
    /\ mEnabled \in BOOLEAN
    /\ mResult = None
    /\ CacheIdle /\ ScanIdle /\ HierIdle /\ UnitsIdle

RunMatchPath ==
    /\ mResult = None
    /\ mResult' = Some(matchPath(mPath, mPatterns, mEnabled))
    /\ UNCHANGED <<mPath, mPatterns, mEnabled, cacheVars, scanVars, hierVars, parseVars, classVars>>

MatchNext == RunMatchPath

SpecMatch == MatchInit /\ [][MatchNext]_vars

\* the patterns of a list that match a path, by position
MatchingIndexes(filePath, patterns) ==
    {i \in 1..Len(patterns) : patternMatches(filePath, patterns[i])}

SetMax(S) == CHOOSE x \in S : \A y \in S : y <= x

\* C1: with checking enabled matchPath decides by the last pattern, in list
\* order, that matches the path: excluded iff that pattern is not negated, and
\* not excluded when no pattern matches; ["*.log", "!important.log"] leaves
\* important.log included and ["!important.log", "*.log"] excludes it.
C1_LastMatchDecides ==
    (mResult # None /\ mEnabled) =>
        LET M == MatchingIndexes(mPath, mPatterns)
        IN  /\ mResult[1].excluded = (M # {} /\ ~mPatterns[SetMax(M)].negated)
            /\ (mPath = ImportantLog
                  /\ mPatterns = <<Pat(StarLog, FALSE), Pat(ImportantLog, TRUE)>>)
                 => ~mResult[1].excluded
            /\ (mPath = ImportantLog
                  /\ mPatterns = <<Pat(ImportantLog, TRUE), Pat(StarLog, FALSE)>>)
                 => mResult[1].excluded

\* C1 witness: a later negated match has overridden an earlier exclusion
C1_Witness ==
    /\ mResult # None /\ mEnabled
    /\ mPath = ImportantLog
    /\ mPatterns = <<Pat(StarLog, FALSE), Pat(ImportantLog, TRUE)>>
    /\ ~mResult[1].excluded

-----------------------------------------------------------------------------
(* SpecCache: the cache manager, the clock and the files                   *)

CacheSpecInit == CacheInit /\ MatchIdle /\ ScanIdle /\ HierIdle /\ UnitsIdle

SpecCache == CacheSpecInit /\ [][CacheNext]_vars

CachedEntry(c, filePath) == c[CacheIndex(c, filePath)]

\* C2: a get() that hits never returns an outdated parse: whenever the
\* file's mtime on disk is newer than the lastModified recorded in the cached
\* IgnoreFile, get() reports a miss.
C2_HitIsNeverOutdated ==
    (lastOp.op = "get" /\ lastOp.hit) =>
        disk[lastOp.path].mtime <= CachedEntry(cache, lastOp.path).file.lastModified

C4_SizeBoundedAfterSet ==
    (lastOp.op = "set" /\ options.cacheSize > 0) => Len(cache) <= options.cacheSize

\* C5: a set() for a new path while the cache holds cacheSize entries evicts
\* exactly one entry, one with the earliest cachedAt, and stores the new one;
\* a get() hit changes no entry, so reading does not protect an entry.
C5_EvictsEarliestCachedAt ==
    [][/\ \A p \in IgnorePaths :
            (/\ lastOp'.op = "set" /\ lastOp'.path = p
             /\ options.cacheEnabled /\ options.cacheSize > 0
             /\ p \notin CachedPaths(cache)
             /\ Len(cache) = options.cacheSize)
            => \E i \in 1..Len(cache) :
                  /\ \A j \in 1..Len(cache) : cache[i].cachedAt <= cache[j].cachedAt
                  /\ cache' = Append(RemoveAt(cache, i),
                                     [path |-> p, file |-> parsed[1], cachedAt |-> now])
       /\ (lastOp'.op = "get" /\ lastOp'.hit) => cache' = cache]_vars

\* C5 witness: after a get() hit, a set() of a new path has evicted an entry
\* from a full cache of two
C5_Witness ==
    /\ lastOp.op = "set" /\ lastOp.removed # {}
    /\ hitCount > 0
    /\ options.cacheSize = 2 /\ Len(cache) = 2
    /\ cache[2].path = lastOp.path

-----------------------------------------------------------------------------
(* ProjectDiscoveryService: classification of one directory                *)

UpperToLower ==
    ("A" :> "a" @@ "B" :> "b" @@ "C" :> "c" @@ "D" :> "d" @@ "E" :> "e" @@
     "F" :> "f" @@ "G" :> "g" @@ "H" :> "h" @@ "I" :> "i" @@ "J" :> "j" @@
     "K" :> "k" @@ "L" :> "l" @@ "M" :> "m" @@ "N" :> "n" @@ "O" :> "o" @@
     "P" :> "p" @@ "Q" :> "q" @@ "R" :> "r" @@ "S" :> "s" @@ "T" :> "t" @@
     "U" :> "u" @@ "V" :> "v" @@ "W" :> "w" @@ "X" :> "x" @@ "Y" :> "y" @@
     "Z" :> "z")

\* String.prototype.toLowerCase
toLowerCase(str) ==
    [i \in 1..Len(str) |->
        IF str[i] \in DOMAIN UpperToLower THEN UpperToLower[str[i]] ELSE str[i]]

\* String.prototype.endsWith
EndsWith(str, suffix) ==
    /\ Len(suffix) <= Len(str)
    /\ \A i \in 1..Len(suffix) : str[Len(str) - Len(suffix) + i] = suffix[i]

\* String.prototype.includes
Includes(str, sub) ==
    \E k \in 0..(Len(str) - Len(sub)) : \A i \in 1..Len(sub) : str[k + i] = sub[i]

\* Array.prototype.includes
ListIncludes(list, x) == \E i \in 1..Len(list) : list[i] = x

\* files.map(f => f.toLowerCase())
LowerAll(files) == [i \in 1..Len(files) |-> toLowerCase(files[i])]

projectFiles ==
    {<<"p", "a", "c", "k", "a", "g", "e", ".", "j", "s", "o", "n">>,
     <<"r", "e", "q", "u", "i", "r", "e", "m", "e", "n", "t", "s", ".", "t", "x", "t">>,
     <<"s", "e", "t", "u", "p", ".", "p", "y">>,
     <<"p", "y", "p", "r", "o", "j", "e", "c", "t", ".", "t", "o", "m", "l">>,
     <<"c", "a", "r", "g", "o", ".", "t", "o", "m", "l">>,
     <<"g", "o", ".", "m", "o", "d">>,
     <<"c", "o", "m", "p", "o", "s", "e", "r", ".", "j", "s", "o", "n">>,
     <<"g", "e", "m", "f", "i", "l", "e">>,
     <<"p", "o", "m", ".", "x", "m", "l">>,
     <<"b", "u", "i", "l", "d", ".", "g", "r", "a", "d", "l", "e">>,
     <<".", "c", "s", "p", "r", "o", "j">>,
     <<".", "s", "l", "n">>,
     <<".", "v", "b", "p", "r", "o", "j">>,
     <<"d", "o", "c", "k", "e", "r", "f", "i", "l", "e">>,
     <<".", "t", "f">>,
     <<"i", "n", "d", "e", "x", ".", "h", "t", "m", "l">>,
     <<"a", "p", "p", ".", "j", "s">>,
     <<"m", "a", "i", "n", ".", "j", "s">>,
     <<"s", "e", "r", "v", "e", "r", ".", "j", "s">>,
     <<"a", "p", "p", ".", "p", "y">>,
     <<"m", "a", "i", "n", ".", "p", "y">>,
     <<"p", "r", "o", "g", "r", "a", "m", ".", "c", "s">>,
     <<"m", "a", "i", "n", ".", "g", "o">>,
     <<"l", "i", "b", ".", "r", "s">>,
     <<"s", "r", "c", "/", "m", "a", "i", "n", "/", "j", "a", "v", "a">>,
     <<"s", "r", "c", "/", "m", "a", "i", "n", "/", "k", "o", "t", "l", "i", "n">>,
     <<"s", "r", "c", "/", "m", "a", "i", "n", "/", "s", "c", "a", "l", "a">>}

SourceExtensions == {<<".", "j", "s">>, <<".", "p", "y">>, <<".", "c", "s">>, <<".", "g", "o">>, <<".", "r", "s">>}

hasProjectIndicators(files) ==
    \/ \E projectFile \in projectFiles : ListIncludes(files, projectFile)
    \/ \E ext \in SourceExtensions :
          \E i \in 1..Len(files) : EndsWith(files[i], ext) /\ files[i] # GITIGNORE

\* { ...packageContent.dependencies, ...packageContent.devDependencies }
spread(dependencies, devDependencies) ==
    [n \in DOMAIN dependencies \cup DOMAIN devDependencies |->
        IF n \in DOMAIN devDependencies THEN devDependencies[n] ELSE dependencies[n]]

\* if (deps.name): the property is there and its value (a version string)
\* is not the empty string
truthy(deps, name) == name \in DOMAIN deps /\ deps[name] # ""

\* the manifest of a directory as readFileSync + JSON.parse finds it:
\* None when package.json cannot be read, else whether it parses and its
\* dependencies and devDependencies (name -> version string)
determineNodeProjectType(pkg) ==
    IF pkg = None \/ ~pkg[1].parses THEN "javascript"
    ELSE LET deps == spread(pkg[1].dependencies, pkg[1].devDependencies)
         IN  IF truthy(deps, "typescript") THEN "typescript"
             ELSE IF truthy(deps, "react") THEN "react"
             ELSE IF truthy(deps, "vue") THEN "vue"
             ELSE IF truthy(deps, "angular") THEN "angular"
             ELSE IF truthy(deps, "next") THEN "nextjs"
             ELSE IF truthy(deps, "nuxt") THEN "nuxtjs"
             ELSE IF truthy(deps, "express") THEN "express"
             ELSE IF truthy(deps, "nestjs") THEN "nestjs"
             ELSE IF truthy(deps, "gatsby") THEN "gatsby"
             ELSE "nodejs"

AnyIncludes(fileNames, sub) == \E i \in 1..Len(fileNames) : Includes(fileNames[i], sub)

AnyEndsWith(fileNames, suffix) == \E i \in 1..Len(fileNames) : EndsWith(fileNames[i], suffix)

determineJavaProjectType(fileNames) ==
    IF AnyIncludes(fileNames, <<".", "k", "t">>) THEN "kotlin"
    ELSE IF AnyIncludes(fileNames, <<".", "s", "c", "a", "l", "a">>) THEN "scala"
    ELSE "java"

determineProjectType(files, pkg) ==
    LET fileNames == LowerAll(files)
        has(name) == ListIncludes(fileNames, name)
    IN  IF has(<<"p", "a", "c", "k", "a", "g", "e", ".", "j", "s", "o", "n">>) THEN determineNodeProjectType(pkg)
        ELSE IF has(<<"r", "e", "q", "u", "i", "r", "e", "m", "e", "n", "t", "s", ".", "t", "x", "t">>) \/ has(<<"s", "e", "t", "u", "p", ".", "p", "y">>) \/ has(<<"p", "y", "p", "r", "o", "j", "e", "c", "t", ".", "t", "o", "m", "l">>) THEN "python"
        ELSE IF has(<<"c", "a", "r", "g", "o", ".", "t", "o", "m", "l">>) THEN "rust"
        ELSE IF has(<<"g", "o", ".", "m", "o", "d">>) THEN "go"
        ELSE IF has(<<"c", "o", "m", "p", "o", "s", "e", "r", ".", "j", "s", "o", "n">>) THEN "php"
        ELSE IF has(<<"g", "e", "m", "f", "i", "l", "e">>) THEN "ruby"
        ELSE IF has(<<"p", "o", "m", ".", "x", "m", "l">>) \/ has(<<"b", "u", "i", "l", "d", ".", "g", "r", "a", "d", "l", "e">>) THEN determineJavaProjectType(fileNames)
        ELSE IF has(<<".", "c", "s", "p", "r", "o", "j">>) \/ has(<<".", "s", "l", "n">>) \/ has(<<".", "v", "b", "p", "r", "o", "j">>) THEN "csharp"
        ELSE IF \/ AnyEndsWith(fileNames, <<".", "c", "p", "p">>)
                \/ AnyEndsWith(fileNames, <<".", "h">>)
                \/ AnyEndsWith(fileNames, <<".", "h", "p", "p">>) THEN "cpp"
        ELSE IF AnyEndsWith(fileNames, <<".", "s", "w", "i", "f", "t">>) THEN "swift"
        ELSE IF /\ AnyEndsWith(fileNames, <<".", "h", "t", "m", "l">>)
                /\ \/ AnyEndsWith(fileNames, <<".", "c", "s", "s">>)
                   \/ AnyEndsWith(fileNames, <<".", "s", "c", "s", "s">>)
                   \/ AnyEndsWith(fileNames, <<".", "s", "a", "s", "s">>) THEN "html"
        ELSE IF has(<<"d", "o", "c", "k", "e", "r", "f", "i", "l", "e">>) THEN "docker"
        ELSE IF AnyEndsWith(fileNames, <<".", "t", "f">>) THEN "terraform"
        ELSE "unknown"

\* path.split(sep).pop()
LastSegment(path) == SubSeq(path, LastIndexOf(path, "/") + 1, Len(path))

\* an analyzeDirectory that records no project of type unknown
analyzeDirectoryKnownOnly(directoryPath, files, pkg) ==
    IF ~hasProjectIndicators(LowerAll(files)) \/ determineProjectType(files, pkg) = "unknown"
    THEN None
    ELSE Some([path |-> directoryPath,
               name |-> LastSegment(directoryPath),
               type |-> determineProjectType(files, pkg),
               hasPackageJson |-> ListIncludes(LowerAll(files), <<"p", "a", "c", "k", "a", "g", "e", ".", "j", "s", "o", "n">>),
               hasTsConfig |-> ListIncludes(LowerAll(files), <<"t", "s", "c", "o", "n", "f", "i", "g", ".", "j", "s", "o", "n">>),
               hasVSCodeSettings |-> ListIncludes(LowerAll(files), <<".", "v", "s", "c", "o", "d", "e">>),
               isGitRepo |-> ListIncludes(LowerAll(files), <<".", "g", "i", "t">>)])

\* analyzeDirectory: None, or Some(ProjectInfo) (lastModified, size and
\* fileCount, which no decision reads, are left out)
analyzeDirectory(directoryPath, files, pkg) ==
    LET fileNames == LowerAll(files)
    IN  IF ~hasProjectIndicators(fileNames) THEN None
        ELSE Some([path |-> directoryPath,
                   name |-> LastSegment(directoryPath),
                   type |-> determineProjectType(files, pkg),
                   hasPackageJson |-> ListIncludes(fileNames, <<"p", "a", "c", "k", "a", "g", "e", ".", "j", "s", "o", "n">>),
                   hasTsConfig |-> ListIncludes(fileNames, <<"t", "s", "c", "o", "n", "f", "i", "g", ".", "j", "s", "o", "n">>),
                   hasVSCodeSettings |-> ListIncludes(fileNames, <<".", "v", "s", "c", "o", "d", "e">>),
                   isGitRepo |-> ListIncludes(fileNames, <<".", "g", "i", "t">>)])

-----------------------------------------------------------------------------
(* The directory tree the scanner walks.  Ignore files are the part of it  *)
(* held in disk; everything else is fixed.                                 *)

PACKAGE_JSON == <<"p", "a", "c", "k", "a", "g", "e", ".", "j", "s", "o", "n">>
MAIN_PY      == <<"m", "a", "i", "n", ".", "p", "y">>
GO_MOD       == <<"g", "o", ".", "m", "o", "d">>
README       == <<"R", "E", "A", "D", "M", "E">>

DirDist        == JoinPath(DirApp, <<"d", "i", "s", "t">>)
DirNodeModules == JoinPath(DirApp, <<"n", "o", "d", "e", "_", "m", "o", "d", "u", "l", "e", "s">>)
DirX           == JoinPath(DirLib, <<"x">>)
DirHidden      == JoinPath(DirC, <<".", "h">>)
DirMissing     == <<"/", "n">>

Directories == {DirC, DirApp, DirLib, DirX, DirDist, DirNodeModules, DirHidden}

\* a second project directory of /c, there only when the disk says so
DirWeb == JoinPath(DirC, <<"w", "e", "b">>)

OptionalDirs == {DirWeb}

File(name) == [name |-> name, isDirectory |-> FALSE]
Dir(name)  == [name |-> name, isDirectory |-> TRUE]

\* the entries of a directory other than its ignore file, in listing order
StaticEntries(dir) ==
    CASE dir = DirC    -> <<Dir(<<".", "h">>), File(README), Dir(<<"a", "p", "p">>)>>
      [] dir = DirApp  -> <<Dir(<<"d", "i", "s", "t">>), Dir(<<"l", "i", "b">>), Dir(<<"n", "o", "d", "e", "_", "m", "o", "d", "u", "l", "e", "s">>), File(PACKAGE_JSON)>>
      [] dir = DirLib  -> <<File(MAIN_PY), Dir(<<"x">>)>>
      [] dir = DirX    -> <<File(GO_MOD)>>
      [] OTHER         -> <<File(PACKAGE_JSON)>>

\* what package.json of a directory holds: None when there is none
Manifest(dir) ==
    CASE dir = DirApp  -> Some([parses |-> TRUE,
                                dependencies |-> ("react" :> "^18" @@ "express" :> "^4"),
                                devDependencies |-> <<>>])
      [] dir = DirDist -> Some([parses |-> FALSE, dependencies |-> <<>>,
                                devDependencies |-> <<>>])
      [] dir \in {DirNodeModules, DirHidden} ->
                          Some([parses |-> TRUE, dependencies |-> <<>>,
                                devDependencies |-> <<>>])
      [] OTHER         -> None

\* a directory exists unless it or a directory above it has been removed
existsSync(d, path) ==
    /\ path \in Directories \/ (path \in OptionalDirs /\ path \in DOMAIN d)
    /\ \A q \in DOMAIN d \cap (Directories \cup OptionalDirs) :
          (path = q \/ StartsWith(path, q \o <<"/">>)) => d[q].exists

\* readdirSync returns rather than throws (EACCES on a directory that may
\* not be listed)
canList(d, path) == path \in DOMAIN d => d[path].readable

\* readdirSync(path, {withFileTypes: true})
readdirSync(d, path) ==
    (IF FileExists(d, GitignorePathOf(path)) THEN <<File(GITIGNORE)>> ELSE <<>>)
        \o StaticEntries(path)
        \o (IF DirWeb = JoinPath(path, LastSegment(DirWeb)) /\ FileExists(d, DirWeb)
            THEN <<Dir(LastSegment(DirWeb))>> ELSE <<>>)

\* the patterns parseGitignoreFile reads from a file with the given content
STAR_LIB == <<"*", "l", "i", "b">>

STAR_X == <<"*", "x">>

FilePatterns(content) ==
    IF content = 1 THEN <<[pattern |-> STAR_LIB, negated |-> FALSE]>>
    ELSE IF content = 2 THEN <<[pattern |-> STAR_X, negated |-> FALSE]>>
    ELSE <<>>

-----------------------------------------------------------------------------
(* ProjectDiscoveryService: exclusion                                      *)

globToRegex(pattern) ==
    ReplaceAll(
      ReplaceAll(EscapeRegex(pattern), <<"*", "*">>, <<Raw("."), Raw("*")>>),
      <<"*">>, <<Raw(NonSepClass), Raw("*")>>)

shouldExclude(path, excludePatterns) ==
    LET normalizedPath == ReplaceBackslash(path)
    IN  \E i \in 1..Len(excludePatterns) :
            RegexTest(globToRegex(excludePatterns[i]), normalizedPath)

defaultExclusions ==
    { <<"n", "o", "d", "e", "_", "m", "o", "d", "u", "l", "e", "s">>,
      <<".", "g", "i", "t">>,
      <<"d", "i", "s", "t">>,
      <<"b", "u", "i", "l", "d">>,
      <<".", "n", "e", "x", "t">>,
      <<".", "n", "u", "x", "t">>,
      <<"c", "o", "v", "e", "r", "a", "g", "e">>,
      <<".", "n", "y", "c", "_", "o", "u", "t", "p", "u", "t">>,
      <<"t", "a", "r", "g", "e", "t">>,
      <<"b", "i", "n">>,
      <<"o", "b", "j">> }

\* defaultExclusions.includes(dirName) || dirName.startsWith('.')
IsDefaultExcluded(path) ==
    LET dirName == LastSegment(path)
    IN  dirName \in defaultExclusions \/ StartsWith(dirName, <<".">>)

\* GitignoreParser.findGitignoreFiles(startPath, 10): the recursion stops at
\* the start directory, so the result is its own ignore file, if it has one
findGitignoreFiles(d, startPath) ==
    IF FileExists(d, GitignorePathOf(startPath))
    THEN <<GitignorePathOf(startPath)>> ELSE <<>>

\* getDefaultCache(options): updateOptions on the existing instance
getDefaultCache(mgr, gitignoreOptions) ==
    [mgr EXCEPT !.options = [cacheEnabled |-> gitignoreOptions.cacheEnabled,
                             cacheSize |-> gitignoreOptions.cacheSize,
                             cacheTTL |-> gitignoreOptions.cacheTTL]]

\* the value of a singleton set
The(S) == CHOOSE x \in S : TRUE

\* the manager after a call of op on filePath
called(mgr, op, filePath, hit) ==
    [mgr EXCEPT !.calls = Append(@, [op |-> op, path |-> filePath, hit |-> hit])]

\* a round of the loop of checkGitignore that stores nothing after a miss
loadGitignoreFileWithoutSet(mgr, d, gitignorePath, g, t) ==
    IF g.hit THEN [file |-> g.file[1],
                   mgr |-> called(afterGet(mgr, g), "get", gitignorePath, TRUE)]
    ELSE [file |-> parseGitignoreFile(d, gitignorePath, t),
          mgr |-> called(afterGet(mgr, g), "get", gitignorePath, FALSE)]

\* a round of the loop of checkGitignore that also stores a failed parse
loadGitignoreFileStoresFailed(mgr, d, gitignorePath, g, t) ==
    IF g.hit THEN [file |-> g.file[1],
                   mgr |-> called(afterGet(mgr, g), "get", gitignorePath, TRUE)]
    ELSE The({ [file |-> gitignoreFile,
                mgr |-> called([called(afterGet(mgr, g), "get", gitignorePath, FALSE)
                                  EXCEPT !.cache = set(g.cache, mgr.options,
                                                       gitignorePath, gitignoreFile, t)],
                               "set", gitignorePath, FALSE)] :
               gitignoreFile \in {parseGitignoreFile(d, gitignorePath, t)} })

\* one round of the loop of checkGitignore, after get() returned g:
\* on a miss parse and (unless the parse failed) set; [file, mgr]
loadGitignoreFile(mgr, d, gitignorePath, g, t) ==
    IF g.hit THEN [file |-> g.file[1],
                   mgr |-> called(afterGet(mgr, g), "get", gitignorePath, TRUE)]
    ELSE The({ [file |-> gitignoreFile,
                mgr |-> IF gitignoreFile.error
                        THEN called(afterGet(mgr, g), "get", gitignorePath, FALSE)
                        ELSE called([called(afterGet(mgr, g), "get", gitignorePath, FALSE)
                                       EXCEPT !.cache = set(g.cache, mgr.options,
                                                            gitignorePath, gitignoreFile, t)],
                                    "set", gitignorePath, FALSE)] :
               gitignoreFile \in {parseGitignoreFile(d, gitignorePath, t)} })

\* the loop of checkGitignore over gitignorePaths from index i on
RECURSIVE loadPatterns(_, _, _, _, _, _)
loadPatterns(mgr, d, gitignorePaths, i, allPatterns, t) ==
    IF i > Len(gitignorePaths) THEN [patterns |-> allPatterns, mgr |-> mgr]
    ELSE The({ loadPatterns(l.mgr, d, gitignorePaths, i + 1,
                            IF l.file.error THEN allPatterns
                            ELSE allPatterns \o FilePatterns(l.file.content), t) :
               l \in { loadGitignoreFile(mgr, d, gitignorePaths[i], g, t) :
                       g \in {get(mgr.cache, mgr.options, d, gitignorePaths[i], t)} } })

\* checkGitignore: [excluded, mgr]
checkGitignore(mgr, d, path, gitignoreOptions, t) ==
    IF ~gitignoreOptions.enabled THEN [excluded |-> FALSE, mgr |-> mgr]
    ELSE IF Len(findGitignoreFiles(d, path)) = 0
         THEN [excluded |-> FALSE, mgr |-> getDefaultCache(mgr, gitignoreOptions)]
         ELSE The({ [excluded |-> matchPath(path, loaded.patterns,
                                            gitignoreOptions.enabled).excluded,
                     mgr |-> loaded.mgr] :
                    loaded \in {loadPatterns(getDefaultCache(mgr, gitignoreOptions), d,
                                             findGitignoreFiles(d, path), 1, <<>>, t)} })

\* a shouldExcludeDirectory without the fixed exclusions
shouldExcludeDirectoryNoDefaults(mgr, d, path, excludePatterns, gitignoreOptions, t) ==
    IF shouldExclude(path, excludePatterns) THEN [excluded |-> TRUE, mgr |-> mgr]
    ELSE IF gitignoreOptions.enabled
         THEN checkGitignore(mgr, d, path, gitignoreOptions, t)
         ELSE [excluded |-> FALSE, mgr |-> mgr]

\* shouldExcludeDirectory: [excluded, mgr]
shouldExcludeDirectory(mgr, d, path, excludePatterns, gitignoreOptions, t) ==
    IF IsDefaultExcluded(path) THEN [excluded |-> TRUE, mgr |-> mgr]
    ELSE IF shouldExclude(path, excludePatterns) THEN [excluded |-> TRUE, mgr |-> mgr]
    ELSE IF gitignoreOptions.enabled
         THEN checkGitignore(mgr, d, path, gitignoreOptions, t)
         ELSE [excluded |-> FALSE, mgr |-> mgr]

-----------------------------------------------------------------------------
(* ProjectDiscoveryService.scanDirectory.  One call is a task; it runs     *)
(* from its start to `await analyzeDirectory`, from there to               *)
(* `await Promise.all`, and from there to its return.  Tasks are named by  *)
(* the index of their root folder and their path.                          *)

\* entries.filter(entry => entry.isFile() && !shouldExclude(...)).map(f => f.name)
RECURSIVE fileNamesFrom(_, _, _, _)
fileNamesFrom(currentPath, entries, i, excludePatterns) ==
    IF i > Len(entries) THEN <<>>
    ELSE (IF /\ ~entries[i].isDirectory
             /\ ~shouldExclude(JoinPath(currentPath, entries[i].name), excludePatterns)
          THEN <<entries[i].name>> ELSE <<>>)
             \o fileNamesFrom(currentPath, entries, i + 1, excludePatterns)

\* entries.filter(entry => entry.isDirectory() && !shouldExcludeDirectory(...))
\* from index i on, kept holding the sub-paths that passed so far:
\* [paths, mgr], the sub-paths kept and the cache manager after the calls
RECURSIVE directoriesFrom(_, _, _, _, _, _, _, _, _)
directoriesFrom(mgr, d, currentPath, entries, i, excludePatterns, gitignoreOptions, t, kept) ==
    IF i > Len(entries) THEN [paths |-> kept, mgr |-> mgr]
    ELSE IF ~entries[i].isDirectory
         THEN directoriesFrom(mgr, d, currentPath, entries, i + 1,
                              excludePatterns, gitignoreOptions, t, kept)
         ELSE The({ directoriesFrom(x.mgr, d, currentPath, entries, i + 1,
                                    excludePatterns, gitignoreOptions, t,
                                    IF x.excluded THEN kept
                                    ELSE Append(kept, JoinPath(currentPath, entries[i].name))) :
                    x \in {shouldExcludeDirectory(mgr, d,
                                                  JoinPath(currentPath, entries[i].name),
                                                  excludePatterns, gitignoreOptions, t)} })

\* a scanDirectory without the try/catch: a failed listing rejects the call
scanDirectoryEnterNoCatch(d, currentPath, currentDepth, maxDepth, excludePatterns) ==
    IF currentDepth >= maxDepth \/ ~existsSync(d, currentPath)
    THEN [pc |-> "returned", depth |-> currentDepth, listed |-> FALSE, caught |-> FALSE,
          classified |-> FALSE, found |-> None, children |-> <<>>, projects |-> <<>>]
    ELSE IF ~canList(d, currentPath)
    THEN [pc |-> "rejected", depth |-> currentDepth, listed |-> FALSE, caught |-> FALSE,
          classified |-> FALSE, found |-> None, children |-> <<>>, projects |-> <<>>]
    ELSE [pc |-> "analyzed", depth |-> currentDepth, listed |-> TRUE, caught |-> FALSE,
          classified |-> TRUE,
          found |-> analyzeDirectory(currentPath,
                                     fileNamesFrom(currentPath, readdirSync(d, currentPath),
                                                   1, excludePatterns),
                                     Manifest(currentPath)),
          children |-> <<>>, projects |-> <<>>]

\* a scanDirectory that still lists and classifies a directory at maxDepth
scanDirectoryEnterAtBound(d, currentPath, currentDepth, maxDepth, excludePatterns) ==
    IF currentDepth > maxDepth \/ ~existsSync(d, currentPath)
    THEN [pc |-> "returned", depth |-> currentDepth, listed |-> FALSE, caught |-> FALSE,
          classified |-> FALSE, found |-> None, children |-> <<>>, projects |-> <<>>]
    ELSE IF ~canList(d, currentPath)
    THEN [pc |-> "returned", depth |-> currentDepth, listed |-> FALSE, caught |-> TRUE,
          classified |-> FALSE, found |-> None, children |-> <<>>, projects |-> <<>>]
    ELSE LET entries == readdirSync(d, currentPath)
             files == fileNamesFrom(currentPath, entries, 1, excludePatterns)
         IN  [pc |-> "analyzed", depth |-> currentDepth, listed |-> TRUE, caught |-> FALSE,
              classified |-> TRUE,
              found |-> analyzeDirectory(currentPath, files, Manifest(currentPath)),
              children |-> <<>>, projects |-> <<>>]

\* a call of scanDirectory up to its first await (or its early return)
scanDirectoryEnter(d, currentPath, currentDepth, maxDepth, excludePatterns) ==
    IF currentDepth >= maxDepth \/ ~existsSync(d, currentPath)
    THEN [pc |-> "returned", depth |-> currentDepth, listed |-> FALSE, caught |-> FALSE,
          classified |-> FALSE, found |-> None, children |-> <<>>, projects |-> <<>>]
    ELSE IF ~canList(d, currentPath)
    THEN \* readdirSync throws; the catch block warns and the call returns projects
         [pc |-> "returned", depth |-> currentDepth, listed |-> FALSE, caught |-> TRUE,
          classified |-> FALSE, found |-> None, children |-> <<>>, projects |-> <<>>]
    ELSE LET entries == readdirSync(d, currentPath)
             files == fileNamesFrom(currentPath, entries, 1, excludePatterns)
         IN  [pc |-> "analyzed", depth |-> currentDepth, listed |-> TRUE, caught |-> FALSE,
              classified |-> TRUE,
              found |-> analyzeDirectory(currentPath, files, Manifest(currentPath)),
              children |-> <<>>, projects |-> <<>>]

\* a concatenation that takes the arrays of the sub-scans last to first
RECURSIVE concatProjectsReversed(_, _, _)
concatProjectsReversed(tasks, ids, i) ==
    IF i > Len(ids) THEN <<>>
    ELSE concatProjectsReversed(tasks, ids, i + 1) \o tasks[ids[i]].projects

\* projects.push(...subProjects) for each element of subProjectArrays
RECURSIVE concatProjects(_, _, _)
concatProjects(tasks, ids, i) ==
    IF i > Len(ids) THEN <<>>
    ELSE tasks[ids[i]].projects \o concatProjects(tasks, ids, i + 1)

\* rootFolders.filter(rootFolder => existsSync(rootFolder))
RECURSIVE existingRoots(_, _, _)
existingRoots(d, rootFolders, i) ==
    IF i > Len(rootFolders) THEN <<>>
    ELSE (IF existsSync(d, rootFolders[i]) THEN <<rootFolders[i]>> ELSE <<>>)
             \o existingRoots(d, rootFolders, i + 1)

ConfigMaxDepth   == 5   \* config.project.maxDepth as ConfigManager sets it
FallbackMaxDepth == 5   \* the literal of discoverProjects

\* options?.maxDepth || config.project?.maxDepth || 5
effectiveMaxDepth(maxDepthOption) ==
    IF maxDepthOption # 0 THEN maxDepthOption
    ELSE IF ConfigMaxDepth # 0 THEN ConfigMaxDepth
    ELSE FallbackMaxDepth

-----------------------------------------------------------------------------
(* discoverProjects as a state machine                                     *)

MaxRuns == 2   \* discoverProjects calls in one behaviour

DepthOptions == {0, 1, 2, 3}   \* options.maxDepth (--max-depth)

RootFolderLists ==
    {<<DirC>>, <<DirC, DirC>>, <<DirC, DirApp>>, <<DirC, DirDist>>, <<DirMissing, DirApp>>}

ExcludePatternLists == {<<>>, <<<<"/", "c", "/", "*", "/", "l", "i", "b">>>>}

GitignoreOptionValues ==
    {[enabled |-> FALSE, cacheEnabled |-> TRUE, cacheSize |-> 0, cacheTTL |-> 0],
     [enabled |-> TRUE, cacheEnabled |-> TRUE, cacheSize |-> 1, cacheTTL |-> 0],
     [enabled |-> TRUE, cacheEnabled |-> FALSE, cacheSize |-> 0, cacheTTL |-> 0]}

Config ==
    [rootFolders : RootFolderLists,
     excludePatterns : ExcludePatternLists,
     gitignore : GitignoreOptionValues]

ScanInit ==
    /\ config \in {Some(c) : c \in Config}
    /\ scan = None
    /\ runs = <<>>

RootIds(roots) == [r \in 1..Len(roots) |-> <<r, roots[r]>>]

\* discoverProjects(options) up to `await Promise.all(scanPromises)`: every
\* root's scanDirectory call has run to its first await
StartDiscover(maxDepthOption) ==
    /\ scan = None
    /\ Len(runs) < MaxRuns
    /\ LET maxDepth == effectiveMaxDepth(maxDepthOption)
           roots == existingRoots(disk, config[1].rootFolders, 1)
           ids == RootIds(roots)
       IN  scan' = Some([maxDepthOption |-> maxDepthOption,
                         maxDepth |-> maxDepth,
                         roots |-> roots,
                         tasks |-> [id \in {ids[r] : r \in 1..Len(ids)} |->
                                      scanDirectoryEnter(disk, id[2], 0, maxDepth,
                                                         config[1].excludePatterns)]])
    /\ UNCHANGED <<config, runs, matchVars, cacheVars, hierVars, parseVars, classVars>>

\* a scanDirectory call resumes after `await analyzeDirectory`: it keeps the
\* project, filters the subdirectories and starts their scans
ResumeScan(id) ==
    /\ scan # None
    /\ id \in DOMAIN scan[1].tasks
    /\ scan[1].tasks[id].pc = "analyzed"
    /\ \E kept \in {directoriesFrom(Manager(cache, options, hitCount, missCount), disk,
                                     id[2], readdirSync(disk, id[2]), 1,
                                     config[1].excludePatterns, config[1].gitignore,
                                     now, <<>>)} :
       LET s == scan[1]
           task == s.tasks[id]
           childIds == [i \in 1..Len(kept.paths) |-> <<id[1], kept.paths[i]>>]
           started == [c \in {childIds[i] : i \in 1..Len(childIds)} |->
                          scanDirectoryEnter(disk, c[2], task.depth + 1, s.maxDepth,
                                             config[1].excludePatterns)]
           resumed == [task EXCEPT !.pc = "awaiting",
                                   !.projects = task.found,
                                   !.children = childIds]
       IN  /\ scan' = Some([s EXCEPT !.tasks = (id :> resumed) @@ started @@ s.tasks])
           /\ cache' = kept.mgr.cache
           /\ options' = kept.mgr.options
           /\ hitCount' = kept.mgr.hitCount
           /\ missCount' = kept.mgr.missCount
    /\ UNCHANGED <<config, runs, now, disk, parsed, lastOp, steps, matchVars, hierVars, parseVars, classVars>>

\* a scanDirectory call resumes after `await Promise.all(subDirPromises)`
\* and returns
ReturnScan(id) ==
    /\ scan # None
    /\ id \in DOMAIN scan[1].tasks
    /\ scan[1].tasks[id].pc = "awaiting"
    /\ LET s == scan[1]
           task == s.tasks[id]
       IN  /\ \A i \in 1..Len(task.children) : s.tasks[task.children[i]].pc = "returned"
           /\ scan' = Some([s EXCEPT !.tasks[id] =
                              [task EXCEPT !.pc = "returned",
                                           !.projects = task.projects
                                               \o concatProjects(s.tasks, task.children, 1)]])
    /\ UNCHANGED <<config, runs, matchVars, cacheVars, hierVars, parseVars, classVars>>

\* discoverProjects resumes after `await Promise.all(scanPromises)` and returns
FinishDiscover ==
    /\ scan # None
    /\ LET s == scan[1]
           ids == RootIds(s.roots)
       IN  /\ \A r \in 1..Len(ids) : s.tasks[ids[r]].pc = "returned"
           /\ runs' = Append(runs, [maxDepthOption |-> s.maxDepthOption,
                                    projects |-> concatProjects(s.tasks, ids, 1)])
    /\ scan' = None
    /\ UNCHANGED <<config, matchVars, cacheVars, hierVars, parseVars, classVars>>

TaskIds == (1..2) \X (Directories \cup OptionalDirs)

ScanNext ==
    \/ \E d \in DepthOptions : StartDiscover(d)
    \/ \E id \in TaskIds : ResumeScan(id)
    \/ \E id \in TaskIds : ReturnScan(id)
    \/ FinishDiscover

ScanSpecInit == ScanInit /\ MatchIdle /\ CacheIdle /\ HierIdle /\ UnitsIdle

SpecScan == ScanSpecInit /\ [][ScanNext]_vars

-----------------------------------------------------------------------------
(* Claims about the scanner                                                *)

\* p is e or lies beneath it
InOrUnder(p, e) == p = e \/ StartsWith(p, e \o <<"/">>)

\* the ignore rules report the directory excluded
IgnoreRulesExclude(path) ==
    checkGitignore(Manager(<<>>, options, 0, 0), disk, path,
                   config[1].gitignore, now).excluded

\* the exclusion rules for a subdirectory: fixed names and dot names, the
\* caller's excludePatterns, the ignore rules
ExcludedByRule(path) ==
    \/ IsDefaultExcluded(path)
    \/ shouldExclude(path, config[1].excludePatterns)
    \/ IgnoreRulesExclude(path)

\* the traversal from root r listed directory q and found e as an entry of it
Encountered(r, e) ==
    \E q \in Directories :
        /\ <<r, q>> \in DOMAIN scan[1].tasks
        /\ scan[1].tasks[<<r, q>>].listed
        /\ e = JoinPath(q, LastSegment(e))

\* task id neither listed nor classified its directory nor holds a record,
\* in or under e
Untouched(id, e) ==
    LET task == scan[1].tasks[id]
    IN  /\ InOrUnder(id[2], e) => ~task.listed /\ ~task.classified /\ task.found = None
        /\ \A k \in 1..Len(task.projects) : ~InOrUnder(task.projects[k].path, e)

\* C6 as stated: during a scan, a subdirectory excluded by its name, by an
\* excludePattern or by the ignore rules is never classified and never
\* listed, nor is any directory beneath it, and no returned record lies in
\* or under it -- whichever root folder's traversal reaches it.
C6_ExcludedSubtreeNeverScanned ==
    scan # None =>
        \A e \in Directories :
            (ExcludedByRule(e) /\ \E r \in 1..Len(scan[1].roots) : Encountered(r, e))
                => \A id \in DOMAIN scan[1].tasks : Untouched(id, e)

\* C6 amended: within the traversal that starts at one root folder, a
\* subdirectory excluded by its name, by an excludePattern or by the ignore
\* rules is not listed and not classified by that traversal, nor is any
\* directory beneath it, and no record that traversal returns lies in or
\* under it; a directory that is itself a root folder is scanned all the same.
C6_ExcludedSubtreeSkippedPerRoot ==
    scan # None =>
        \A id \in DOMAIN scan[1].tasks :
            \A e \in Directories :
                (ExcludedByRule(e) /\ Encountered(id[1], e)) => Untouched(id, e)

\* an app with node_modules, dist and an excluded lib, scanned from /c with
\* the default depth, has yielded exactly one record: the app, typed react
C6_Witness ==
    /\ scan # None
    /\ scan[1].roots = <<DirC>>
    /\ scan[1].maxDepth = ConfigMaxDepth
    /\ scan[1].tasks[<<1, DirC>>].pc = "returned"
    /\ Encountered(1, DirDist) /\ Encountered(1, DirNodeModules) /\ Encountered(1, DirLib)
    /\ ExcludedByRule(DirLib)
    /\ Len(scan[1].tasks[<<1, DirC>>].projects) = 1
    /\ scan[1].tasks[<<1, DirC>>].projects[1].path = DirApp
    /\ scan[1].tasks[<<1, DirC>>].projects[1].type = "react"

RunPaths(run) == {run.projects[k].path : k \in 1..Len(run.projects)}

\* C7: monotonic depth -- of two completed discoverProjects calls that differ
\* only in maxDepth, d1 < d2 with d1 >= 0, the paths returned for d1 are a
\* subset of the paths returned for d2.
C7_MonotonicDepth ==
    \A i, j \in 1..Len(runs) :
        runs[i].maxDepthOption < runs[j].maxDepthOption
            => RunPaths(runs[i]) \subseteq RunPaths(runs[j])

\* C8: no two records in the list one discoverProjects call returns have
\* the same path, also when a root folder is repeated or lies under another.
C8_UniquePathsInResult ==
    \A n \in 1..Len(runs) :
        \A i, j \in 1..Len(runs[n].projects) :
            i # j => runs[n].projects[i].path # runs[n].projects[j].path

-----------------------------------------------------------------------------
(* ProjectDiscoveryService.buildProjectHierarchy.  A project is named by   *)
(* its path; the node table maps a path to [level, parent, children].      *)

\* node:path join(path, '..') for a normalised absolute path
JoinDotDot(path) ==
    IF LastIndexOf(path, "/") <= 1 THEN <<"/">>
    ELSE SubSeq(path, 1, LastIndexOf(path, "/") - 1)

\* a getParentDirectory that goes two segments up
getGrandparentDirectory(path) ==
    IF JoinDotDot(JoinDotDot(path)) = path THEN None
    ELSE Some(JoinDotDot(JoinDotDot(path)))

getParentDirectory(path) ==
    IF JoinDotDot(path) = path THEN None ELSE Some(JoinDotDot(path))

\* the keys of nodeMap in insertion order: a path set again keeps its place
RECURSIVE nodeMapKeys(_, _, _)
nodeMapKeys(projects, i, keys) ==
    IF i > Len(projects) THEN keys
    ELSE nodeMapKeys(projects, i + 1,
                     IF ListIncludes(keys, projects[i]) THEN keys
                     ELSE Append(keys, projects[i]))

NewNode == [level |-> 0, parent |-> None, children |-> <<>>]

\* the second loop of buildProjectHierarchy from key i on
RECURSIVE linkNodes(_, _, _, _)
linkNodes(keys, i, nodeMap, rootNodes) ==
    IF i > Len(keys) THEN [nodeMap |-> nodeMap, rootNodes |-> rootNodes]
    ELSE The({ IF parentPath # None /\ parentPath[1] \in DOMAIN nodeMap
               THEN linkNodes(keys, i + 1,
                              [nodeMap EXCEPT
                                 ![keys[i]].parent = parentPath,
                                 ![keys[i]].level = nodeMap[parentPath[1]].level + 1,
                                 ![parentPath[1]].children = Append(@, keys[i])],
                              rootNodes)
               ELSE linkNodes(keys, i + 1,
                              [nodeMap EXCEPT ![keys[i]].level = 0],
                              Append(rootNodes, keys[i])) :
               parentPath \in {getParentDirectory(keys[i])} })

buildProjectHierarchy(projects) ==
    The({ linkNodes(keys, 1, [k \in {keys[i] : i \in 1..Len(keys)} |-> NewNode], <<>>) :
          keys \in {nodeMapKeys(projects, 1, <<>>)} })

\* flattenHierarchyNode(node, result) and its loop over node.children from
\* child i on: the projects pushed, in order
RECURSIVE flattenHierarchyNode(_, _), flattenChildren(_, _, _)
flattenChildren(nodeMap, children, i) ==
    IF i > Len(children) THEN <<>>
    ELSE flattenHierarchyNode(nodeMap, children[i])
             \o flattenChildren(nodeMap, children, i + 1)

\* a flattenHierarchyNode that pushes the node after its children
flattenHierarchyNodeChildrenFirst(nodeMap, path) ==
    flattenChildren(nodeMap, nodeMap[path].children, 1) \o <<path>>

flattenHierarchyNode(nodeMap, path) ==
    <<path>> \o flattenChildren(nodeMap, nodeMap[path].children, 1)

\* flattenHierarchy(nodes), nodes given by their paths
flattenHierarchy(nodeMap, nodes) == flattenChildren(nodeMap, nodes, 1)

\* filterHierarchyByParent(nodes, parentFilter), nodes given by their paths
filterHierarchyByParent(nodes, parentFilter) ==
    SelectSeq(nodes, LAMBDA path :
        StartsWith(path, parentFilter) \/ StartsWith(parentFilter, path))

\* limitHierarchyDepth(nodes, maxDepth), nodes given by their paths
limitHierarchyDepth(nodeMap, nodes, maxDepth) ==
    SelectSeq(nodes, LAMBDA path : nodeMap[path].level <= maxDepth)

\* applyHierarchyOptions(nodes, options): options.parentFilter and
\* options.maxDepth are None when the flag is not given
applyHierarchyOptions(nodeMap, nodes, hierarchyOptions) ==
    LET filteredNodes == IF hierarchyOptions.parentFilter # None
                         THEN filterHierarchyByParent(nodes, hierarchyOptions.parentFilter[1])
                         ELSE nodes
    IN  IF hierarchyOptions.maxDepth # None
        THEN limitHierarchyDepth(nodeMap, filteredNodes, hierarchyOptions.maxDepth[1])
        ELSE filteredNodes

-----------------------------------------------------------------------------
(* SpecHier: buildProjectHierarchy applied to bounded project lists        *)

MaxProjects == 4   \* projects in the list handed to buildProjectHierarchy

PathA   == <<"/", "a">>
PathAB  == JoinPath(PathA, <<"b">>)
PathABC == JoinPath(PathAB, <<"c">>)
PathX   == <<"/", "x">>
PathAX  == JoinPath(PathA, <<"x">>)

ProjectPaths == {PathA, PathAB, PathABC, PathX, PathAX}

\* lists of at most n projects with unique paths, in every order
UniqueLists(n) ==
    {l \in SeqsUpTo(ProjectPaths, n) : \A i, j \in 1..Len(l) : i # j => l[i] # l[j]}

HierInit ==
    /\ hInput \in UniqueLists(MaxProjects)
    /\ hNodes = None
    /\ hOut = None
    /\ MatchIdle /\ CacheIdle /\ ScanIdle /\ UnitsIdle

BuildHierarchy ==
    /\ hNodes = None
    /\ hNodes' = Some(buildProjectHierarchy(hInput))
    /\ UNCHANGED <<hInput, hOut, matchVars, cacheVars, scanVars, parseVars, classVars>>

\* the caller sorts the list (by name, path, ...) before it builds the tree
Reorder(l) ==
    /\ hNodes = None
    /\ l # hInput
    /\ {l[i] : i \in 1..Len(l)} = {hInput[i] : i \in 1..Len(hInput)}
    /\ hInput' = l
    /\ UNCHANGED <<hNodes, hOut, matchVars, cacheVars, scanVars, parseVars, classVars>>

\* the caller flattens the tree it built (displayProjectsHierarchyTable)
Flatten ==
    /\ hNodes # None
    /\ hOut = None
    /\ hOut' = Some([op |-> "flatten", arg |-> <<>>,
                     result |-> flattenHierarchy(hNodes[1].nodeMap, hNodes[1].rootNodes)])
    /\ UNCHANGED <<hInput, hNodes, matchVars, cacheVars, scanVars, parseVars, classVars>>

PathAXY == PathAX \o <<"y">>
PathXY  == PathX \o <<"y">>
PathABCD == JoinPath(PathABC, <<"d">>)

\* the values of --parent
ParentFilters == ProjectPaths \cup {PathAXY, PathXY, PathABCD}

\* the caller filters the root nodes by --parent (applyHierarchyOptions)
FilterByParent(parentFilter) ==
    /\ hNodes # None
    /\ hOut = None
    /\ hOut' = Some([op |-> "filter", arg |-> parentFilter,
                     result |-> filterHierarchyByParent(hNodes[1].rootNodes, parentFilter)])
    /\ UNCHANGED <<hInput, hNodes, matchVars, cacheVars, scanVars, parseVars, classVars>>

\* the values of --depth and --parent the hierarchy table is shown with
HierarchyOptions ==
    [parentFilter : {None, Some(PathA)}, maxDepth : {None, Some(0), Some(1)}]

\* displayProjectsHierarchyTable: the options are applied to the root nodes
\* and the nodes that remain are flattened for the table
DisplayHierarchyTable(hierarchyOptions) ==
    /\ hNodes # None
    /\ hOut = None
    /\ hOut' = Some([op |-> "display", arg |-> hierarchyOptions,
                     result |-> flattenHierarchy(hNodes[1].nodeMap,
                                    applyHierarchyOptions(hNodes[1].nodeMap,
                                                          hNodes[1].rootNodes,
                                                          hierarchyOptions))])
    /\ UNCHANGED <<hInput, hNodes, matchVars, cacheVars, scanVars, parseVars, classVars>>

HierNext ==
    \/ BuildHierarchy
    \/ \E l \in UniqueLists(MaxProjects) : Reorder(l)
    \/ Flatten
    \/ \E f \in ParentFilters : FilterByParent(f)
    \/ \E o \in HierarchyOptions : DisplayHierarchyTable(o)

SpecHier == HierInit /\ [][HierNext]_vars

Built == hNodes[1].nodeMap

\* C9: in the tree buildProjectHierarchy returns for a list of unique paths,
\* in whatever order, every root node has level 0 and every other node's
\* level is its parent's level + 1.
C9_LevelIsParentLevelPlusOne ==
    hNodes # None =>
        \A p \in DOMAIN Built :
            IF Built[p].parent = None
            THEN Built[p].level = 0
            ELSE Built[p].level = Built[Built[p].parent[1]].level + 1

\* y is exactly one path segment above x
IsDirectParent(y, x) ==
    /\ Len(x) > Len(y) + 1
    /\ StartsWith(x, y \o <<"/">>)
    /\ \A i \in (Len(y) + 2)..Len(x) : x[i] # "/"

\* C10: buildProjectHierarchy makes X a child of Y iff Y is in the list and
\* Y's path is X's direct filesystem parent; every other project is a
\* root, even when a more distant ancestor is in the list.  The list /a,
\* /a/b, /a/b/c, /x gives root /a with child /a/b with child /a/b/c, and
\* root /x; the list /a, /a/b/c gives two roots.
C10_ChildIffDirectParentListed ==
    hNodes # None =>
        /\ \A x, y \in DOMAIN Built :
              /\ Built[x].parent = Some(y) <=> IsDirectParent(y, x)
              /\ ListIncludes(Built[y].children, x) <=> IsDirectParent(y, x)
        /\ \A x \in DOMAIN Built :
              /\ ListIncludes(hNodes[1].rootNodes, x)
                    <=> ~\E y \in DOMAIN Built : IsDirectParent(y, x)
              /\ Built[x].parent = None
                    <=> ~\E y \in DOMAIN Built : IsDirectParent(y, x)
        /\ hInput = <<PathA, PathAB, PathABC, PathX>> =>
              /\ hNodes[1].rootNodes = <<PathA, PathX>>
              /\ Built[PathA].children = <<PathAB>>
              /\ Built[PathAB].children = <<PathABC>>
              /\ Built[PathABC].children = <<>>
              /\ Built[PathX].children = <<>>
        /\ hInput = <<PathA, PathABC>> =>
              /\ hNodes[1].rootNodes = <<PathA, PathABC>>
              /\ Built[PathA].children = <<>>

\* the tree for /a, /a/b/c, /x, /a/b is built: /a/b/c hangs under /a/b, which
\* hangs under /a, and /a and /x are the roots
C10_Witness ==
    /\ hNodes # None
    /\ hInput = <<PathA, PathABC, PathX, PathAB>>
    /\ hNodes[1].rootNodes = <<PathA, PathX>>
    /\ Built[PathABC].parent = Some(PathAB)
    /\ Built[PathAB].parent = Some(PathA)

\* x hangs, directly or through other nodes, under y in the built tree
RECURSIVE IsTreeDescendant(_, _)
IsTreeDescendant(x, y) ==
    /\ Built[x].parent # None
    /\ \/ Built[x].parent[1] = y
       \/ IsTreeDescendant(Built[x].parent[1], y)

Flattened == hOut # None /\ hOut[1].op = "flatten"

\* C11: for every list P of unique paths, flattenHierarchy of the tree built
\* from P holds every project of P exactly once and nothing else, in
\* pre-order: a project comes before every project of its subtree, and its
\* subtree follows it without a gap.
C11_FlattenIsPreOrderPermutation ==
    Flattened =>
        LET out == hOut[1].result
            in  == {hInput[i] : i \in 1..Len(hInput)}
        IN  /\ Len(out) = Len(hInput)
            /\ \A p \in in : \E i \in 1..Len(out) : out[i] = p
            /\ \A i, j \in 1..Len(out) : out[i] = out[j] => i = j
            /\ \A i, j \in 1..Len(out) : IsTreeDescendant(out[j], out[i]) => i < j
            /\ \A i \in 1..Len(out) :
                  \A j \in (i + 1)..(i + Cardinality({x \in in : IsTreeDescendant(x, out[i])})) :
                      IsTreeDescendant(out[j], out[i])

\* the tree of /a/x, /a/b/c, /a, /a/b is flattened: /a first, then its
\* children in the order they were linked, /a/b/c right after /a/b
C11_Witness ==
    /\ Flattened
    /\ hInput = <<PathAX, PathABC, PathA, PathAB>>
    /\ hOut[1].result = <<PathA, PathAX, PathAB, PathABC>>

Filtered == hOut # None /\ hOut[1].op = "filter"

\* C12: filterHierarchyByParent(nodes, filter) keeps a node iff its path is
\* the filter path, lies beneath it, or is an ancestor directory of it, by
\* whole path segments; a node whose path merely begins with the same
\* characters is not kept.
C12_FilterBySegmentContainment ==
    Filtered =>
        \A i \in 1..Len(hNodes[1].rootNodes) :
            LET path == hNodes[1].rootNodes[i]
            IN  ListIncludes(hOut[1].result, path)
                    <=> (InOrUnder(path, hOut[1].arg) \/ InOrUnder(hOut[1].arg, path))

-----------------------------------------------------------------------------
(* SpecGlob: one pattern matched against one path                          *)

DoubleStarFoo == <<"*", "*", "/", "f", "o", "o">>
ADoubleStarB  == <<"a", "/", "*", "*", "/", "b">>
AQuestionB    == <<"a", "?", "b">>

BuildOutputFile == <<"b", "u", "i", "l", "d", "/", "o", "u", "t", "p", "u", "t", "/", "f", "i", "l", "e", ".", "t", "x", "t">>
MyBuildFile     == <<"m", "y", "-", "b", "u", "i", "l", "d", "/", "f", "i", "l", "e", ".", "t", "x", "t">>
XYZFoo          == <<"x", "/", "y", "/", "z", "/", "f", "o", "o">>
XFoo            == <<"x", "/", "f", "o", "o">>
Foo             == <<"f", "o", "o">>
ASlashB         == <<"a", "/", "b">>
AXB             == <<"a", "/", "x", "/", "b">>
AXYB            == <<"a", "/", "x", "/", "y", "/", "b">>
DirXLog         == <<"d", "i", "r", "/", "x", ".", "l", "o", "g">>
XLog            == <<"x", ".", "l", "o", "g">>
Axb             == <<"a", "x", "b">>

GlobPatternTexts == {BuildSlash, DoubleStarFoo, ADoubleStarB, StarLog, AQuestionB}

GlobPaths ==
    {Build, BuildOutputFile, MyBuildFile, XYZFoo, XFoo, Foo,
     ASlashB, AXB, AXYB, DirXLog, XLog, Axb}

GlobInit ==
    /\ mPath \in GlobPaths
    /\ mPatterns \in {<<Pat(t, n)>> : t \in GlobPatternTexts, n \in BOOLEAN}
    /\ mEnabled = TRUE
    /\ mResult = None
    /\ CacheIdle /\ ScanIdle /\ HierIdle /\ UnitsIdle

SpecGlob == GlobInit /\ [][MatchNext]_vars

\* matchPath has run on the one pattern text, not negated
Matched(text) ==
    /\ mResult # None
    /\ mPatterns = <<Pat(text, FALSE)>>

\* the segments of a path: the maximal runs without a separator
RECURSIVE Segments(_)
Segments(path) ==
    IF \A i \in 1..Len(path) : path[i] # "/" THEN <<path>>
    ELSE LET k == CHOOSE i \in 1..Len(path) :
                      path[i] = "/" /\ \A j \in 1..(i - 1) : path[j] # "/"
         IN  <<SubSeq(path, 1, k - 1)>> \o Segments(SubSeq(path, k + 1, Len(path)))

\* C13: a directory pattern (trailing '/') matches a path iff the path is
\* the pattern without its trailing slash or starts with that text followed
\* by '/': build/ excludes build and build/output/file.txt, not
\* my-build/file.txt.
C13_DirectoryPatternContainment ==
    Matched(BuildSlash) =>
        /\ mResult[1].excluded
              <=> \/ mPath = Build
                  \/ /\ Len(mPath) > Len(Build)
                     /\ SubSeq(mPath, 1, Len(Build) + 1) = Build \o <<"/">>
        /\ mPath = Build => mResult[1].excluded
        /\ mPath = BuildOutputFile => mResult[1].excluded
        /\ mPath = MyBuildFile => ~mResult[1].excluded

\* build/ has been matched against build/output/file.txt and excludes it
C13_Witness ==
    /\ Matched(BuildSlash)
    /\ mPath = BuildOutputFile
    /\ mResult[1].excluded

\* C14: '**' matches across any number of whole path segments, none
\* included: **/foo matches exactly the paths whose last segment is foo
\* (foo, x/foo, x/y/z/foo), and a/**/b exactly the paths of two or more
\* segments that begin with segment a and end with segment b.
C14_DoubleStarCrossesSegments ==
    /\ Matched(DoubleStarFoo) =>
          (mResult[1].excluded
              <=> Segments(mPath)[Len(Segments(mPath))] = Foo)
    /\ Matched(ADoubleStarB) =>
          (mResult[1].excluded
              <=> /\ Len(Segments(mPath)) >= 2
                  /\ Segments(mPath)[1] = <<"a">>
                  /\ Segments(mPath)[Len(Segments(mPath))] = <<"b">>)

\* C15: the single-segment wildcards never match a separator: *.log matches
\* exactly the one-segment paths that end in .log, and a?b exactly the
\* one-segment paths a, one character, b; so *.log does not match
\* dir/x.log and a?b does not match a/b.
C15_SingleWildcardsStayInSegment ==
    /\ Matched(StarLog) =>
          (mResult[1].excluded
              <=> /\ Len(Segments(mPath)) = 1
                  /\ Len(mPath) >= 4
                  /\ SubSeq(mPath, Len(mPath) - 3, Len(mPath)) = <<".", "l", "o", "g">>)
    /\ Matched(AQuestionB) =>
          (mResult[1].excluded
              <=> /\ Len(mPath) = 3
                  /\ mPath[1] = "a" /\ mPath[2] # "/" /\ mPath[3] = "b")

-----------------------------------------------------------------------------
(* GitignoreParser: parsing the content of an ignore file                  *)

COMMENT_PREFIX  == "#"
NEGATION_PREFIX == "!"

\* content.split('\n')
RECURSIVE split(_)
split(content) ==
    IF \A i \in 1..Len(content) : content[i] # "\n" THEN <<content>>
    ELSE LET k == CHOOSE i \in 1..Len(content) :
                      content[i] = "\n" /\ \A j \in 1..(i - 1) : content[j] # "\n"
         IN  <<SubSeq(content, 1, k - 1)>> \o split(SubSeq(content, k + 1, Len(content)))

\* the characters String.prototype.trim removes
WhiteSpace == {" ", "\t", "\r", "\n"}

\* String.prototype.trim
trim(str) ==
    LET inked == {i \in 1..Len(str) : str[i] \notin WhiteSpace}
    IN  IF inked = {} THEN <<>>
        ELSE SubSeq(str,
                    CHOOSE i \in inked : \A j \in inked : i <= j,
                    CHOOSE i \in inked : \A j \in inked : j <= i)

\* parsePattern(line, baseDir, lineNumber): None for null (directory, which
\* is baseDir unchanged, is left out)
parsePattern(line, lineNumber) ==
    LET isNegated   == Len(line) > 0 /\ line[1] = NEGATION_PREFIX
        patternText == IF isNegated THEN Tail(line) ELSE line
    IN  IF trim(patternText) = <<>> THEN None
        ELSE Some([lineNumber   |-> lineNumber,
                   negated      |-> isNegated,
                   originalLine |-> line,
                   pattern      |-> patternText])

\* the loop of parseGitignoreContent from line i on
RECURSIVE parseLines(_, _, _)
parseLines(lines, i, patterns) ==
    IF i > Len(lines) THEN patterns
    ELSE The({ IF trimmedLine = <<>> \/ trimmedLine[1] = COMMENT_PREFIX
               THEN parseLines(lines, i + 1, patterns)
               ELSE The({ parseLines(lines, i + 1,
                                     IF pattern # None THEN Append(patterns, pattern[1])
                                     ELSE patterns) :
                          pattern \in {parsePattern(trimmedLine, Len(patterns) + 1)} }) :
               trimmedLine \in {trim(lines[i])} })

parseGitignoreContent(content) == parseLines(split(content), 1, <<>>)

-----------------------------------------------------------------------------
(* SpecParse: parseGitignoreContent applied to bounded contents            *)

MaxContentLen == 4   \* characters in the content handed to the parser

ContentChars == {"a", NEGATION_PREFIX, COMMENT_PREFIX, " ", "\n"}

ParseInit ==
    /\ pContent \in SeqsUpTo(ContentChars, MaxContentLen)
    /\ pPatterns = None
    /\ MatchIdle /\ CacheIdle /\ ScanIdle /\ HierIdle /\ ClassIdle

ParseContent ==
    /\ pPatterns = None
    /\ pPatterns' = Some(parseGitignoreContent(pContent))
    /\ UNCHANGED <<pContent, matchVars, cacheVars, scanVars, hierVars, classVars>>

ParseNext == ParseContent

SpecParse == ParseInit /\ [][ParseNext]_vars

\* the lines of the content that are not blank (empty or white space only)
\* and do not start with the comment marker, in file order
PatternLines(content) ==
    SelectSeq(split(content),
              LAMBDA line : trim(line) # <<>> /\ line[1] # COMMENT_PREFIX)

\* C16: parseGitignoreContent returns exactly one pattern for each line that
\* is not blank and does not start with '#', in the order of the lines; a
\* leading '!' sets negated and is removed from the stored text, and all
\* other characters of the line are stored unchanged.
C16_OnePatternPerLineVerbatim ==
    pPatterns # None =>
        /\ Len(pPatterns[1]) = Len(PatternLines(pContent))
        /\ \A k \in 1..Len(pPatterns[1]) :
              \E line \in {PatternLines(pContent)[k]} :
                  /\ pPatterns[1][k].negated = (line[1] = NEGATION_PREFIX)
                  /\ pPatterns[1][k].pattern =
                        (IF line[1] = NEGATION_PREFIX THEN Tail(line) ELSE line)

-----------------------------------------------------------------------------
(* SpecTree: one scan configuration over a tree whose ignore files differ  *)
(* and whose directories can fail                                          *)

\* the directories whose listing can fail or that can disappear
FragileDirs == {DirLib, DirX}

TreeConfig ==
    [rootFolders |-> <<DirC>>,
     excludePatterns |-> <<>>,
     gitignore |-> [enabled |-> TRUE, cacheEnabled |-> TRUE, cacheSize |-> 1, cacheTTL |-> 0]]

\* /c and /c/app hold an ignore file, /c/app/lib may hold one; any of the
\* fragile directories may be unreadable
TreeDisks ==
    { [p \in IgnorePaths |->
          [exists |-> (p # GitignorePathOf(DirLib)) \/ libHasFile, readable |-> TRUE,
           mtime |-> 0, content |-> 1]]
        @@ [q \in FragileDirs |-> [exists |-> TRUE, readable |-> q \notin denied]] :
      libHasFile \in BOOLEAN, denied \in SUBSET FragileDirs }

TreeInit ==
    /\ config = Some(TreeConfig)
    /\ scan = None
    /\ runs = <<>>
    /\ disk \in TreeDisks
    /\ now = 0
    /\ cache = <<>>
    /\ options = [cacheEnabled |-> TRUE, cacheSize |-> 0, cacheTTL |-> 0]
    /\ hitCount = 0
    /\ missCount = 0
    /\ parsed = None
    /\ lastOp = NoOp
    /\ steps = 0
    /\ MatchIdle /\ HierIdle /\ UnitsIdle

\* another process removes a directory, and all it holds, while a scan runs
RemoveDirectory(dir) ==
    /\ scan # None
    /\ disk[dir].exists
    /\ disk' = [p \in DOMAIN disk |->
                  IF p = dir \/ StartsWith(p, dir \o <<"/">>)
                  THEN [disk[p] EXCEPT !.exists = FALSE]
                  ELSE disk[p]]
    /\ UNCHANGED <<now, cache, options, hitCount, missCount, parsed, lastOp, steps,
                   scanVars, matchVars, hierVars, parseVars, classVars>>

TreeNext ==
    \/ ScanNext
    \/ \E dir \in FragileDirs : RemoveDirectory(dir)

SpecTree == TreeInit /\ [][TreeNext]_vars

\* the directories of the traversal from root that enclose e, outermost first
EnclosingDirs(root, e) ==
    LET S == {q \in Directories : InOrUnder(q, root) /\ q # e /\ InOrUnder(e, q)}
    IN  [i \in 1..Cardinality(S) |->
            CHOOSE q \in S : Cardinality({r \in S : Len(r) < Len(q)}) = i - 1]

\* the patterns of the ignore files of the directories in dirs, in that order
RECURSIVE PatternsOf(_, _)
PatternsOf(dirs, i) ==
    IF i > Len(dirs) THEN <<>>
    ELSE (IF FileExists(disk, GitignorePathOf(dirs[i]))
          THEN FilePatterns(disk[GitignorePathOf(dirs[i])].content)
          ELSE <<>>) \o PatternsOf(dirs, i + 1)

\* C17: with ignore-rule checking enabled, a candidate subdirectory is
\* matched against the patterns of the ignore files of its enclosing
\* directories, outer files first; so a subdirectory that those patterns
\* exclude is not listed and not classified by the traversal, nor anything
\* beneath it.
C17_EnclosingIgnoreFilesApply ==
    (scan # None /\ config[1].gitignore.enabled) =>
        \A id \in DOMAIN scan[1].tasks :
            \A e \in Directories :
                (/\ Encountered(id[1], e)
                 /\ matchPath(e, PatternsOf(EnclosingDirs(scan[1].roots[id[1]], e), 1),
                              TRUE).excluded)
                    => Untouched(id, e)

\* the directory cannot be listed now: it is gone or may not be read
Failed(q) ==
    /\ q \in DOMAIN disk
    /\ ~disk[q].exists \/ ~disk[q].readable

\* a scan from root to maxDepth records p when nothing fails: p has project
\* indicators, lies within the depth, and no directory on the way is excluded
ExpectedProject(root, maxDepth, p) ==
    /\ InOrUnder(p, root)
    /\ Len(Segments(p)) - Len(Segments(root)) < maxDepth
    /\ hasProjectIndicators(
          LowerAll(fileNamesFrom(p, StaticEntries(p), 1, config[1].excludePatterns)))
    /\ \A q \in Directories :
          (InOrUnder(p, q) /\ InOrUnder(q, root) /\ q # root) => ~ExcludedByRule(q)

C18_ScanSurvives ==
    /\ scan # None => \A id \in DOMAIN scan[1].tasks : scan[1].tasks[id].pc # "rejected"
    /\ \A k \in 1..Len(runs) :
          \A r \in 1..Len(config[1].rootFolders) :
              \A p \in Directories :
                  (/\ ExpectedProject(config[1].rootFolders[r],
                                      effectiveMaxDepth(runs[k].maxDepthOption), p)
                   /\ \A q \in Directories : Failed(q) => ~InOrUnder(p, q))
                      => p \in RunPaths(runs[k])

\* a scan in progress has a continuation that is ready to run: a call
\* waiting to resume after analyzeDirectory, a call all of whose sub-scans
\* have returned, or discoverProjects itself
ScanCanProceed ==
    scan # None =>
        \/ \E id \in DOMAIN scan[1].tasks : scan[1].tasks[id].pc = "analyzed"
        \/ \E id \in DOMAIN scan[1].tasks :
              /\ scan[1].tasks[id].pc = "awaiting"
              /\ \A i \in 1..Len(scan[1].tasks[id].children) :
                    scan[1].tasks[scan[1].tasks[id].children[i]].pc = "returned"
        \/ \A r \in 1..Len(scan[1].roots) :
              scan[1].tasks[<<r, scan[1].roots[r]>>].pc = "returned"

\* the continuations a scan can still run: three for a call not yet made,
\* two for one waiting after analyzeDirectory, one for one waiting for its
\* sub-scans
StepsLeft(s) ==
    3 * Cardinality(TaskIds \ DOMAIN s[1].tasks)
        + 2 * Cardinality({id \in DOMAIN s[1].tasks : s[1].tasks[id].pc = "analyzed"})
        + Cardinality({id \in DOMAIN s[1].tasks : s[1].tasks[id].pc = "awaiting"})

\* a step of a scan in progress uses up a continuation
ScanStepAdvances ==
    (scan # None /\ scan' # None /\ scan' # scan) => StepsLeft(scan') < StepsLeft(scan)

\* C18: a directory whose listing fails, or that disappears while the scan
\* runs, does not abort the scan: no scanDirectory call rejects, the result
\* of a finished scan holds every project of the directories outside the
\* failed subtrees, and the scan runs to its end (some continuation is
\* always ready, and each one that runs leaves fewer to run).
C18_UnreadableDirectoryIsSkipped ==
    /\ [](C18_ScanSurvives /\ ScanCanProceed)
    /\ [][ScanStepAdvances]_vars

\* the listing of /c/app/lib failed and was caught, and the traversal from
\* /c has returned with the app as its only record
C18_Witness ==
    /\ scan # None
    /\ <<1, DirLib>> \in DOMAIN scan[1].tasks
    /\ scan[1].tasks[<<1, DirLib>>].caught
    /\ scan[1].tasks[<<1, DirC>>].pc = "returned"
    /\ Len(scan[1].tasks[<<1, DirC>>].projects) = 1
    /\ scan[1].tasks[<<1, DirC>>].projects[1].path = DirApp

-----------------------------------------------------------------------------
(* SpecClassify: analyzeDirectory applied to bounded file lists            *)

MaxFiles == 2   \* file names in the list handed to analyzeDirectory

PACKAGE_JSON_UPPER == <<"P", "A", "C", "K", "A", "G", "E", ".", "J", "S", "O", "N">>
REQUIREMENTS_TXT   == <<"r", "e", "q", "u", "i", "r", "e", "m", "e", "n", "t", "s", ".", "t", "x", "t">>
MAIN_SWIFT         == <<"m", "a", "i", "n", ".", "s", "w", "i", "f", "t">>
A_JS_UPPER         == <<"A", ".", "J", "S">>
NOTES_TXT          == <<"n", "o", "t", "e", "s", ".", "t", "x", "t">>

ClassifyNames ==
    {PACKAGE_JSON, PACKAGE_JSON_UPPER, REQUIREMENTS_TXT, GO_MOD, MAIN_PY,
     MAIN_SWIFT, A_JS_UPPER, NOTES_TXT, README}

\* version strings of a dependency: a range, or the empty string (any version)
Versions == {"^1", ""}

DependencyNames == {"typescript", "react", "gatsby"}

DependencyMaps == UNION {[names -> Versions] : names \in SUBSET DependencyNames}

DevDependencyMaps == {<<>>, "react" :> "^1", "react" :> ""}

\* what reading package.json gives: nothing (no file of that exact name, or
\* not readable), text that is not JSON, or an object
Manifests ==
    {None, Some([parses |-> FALSE, dependencies |-> <<>>, devDependencies |-> <<>>])}
        \cup {Some([parses |-> TRUE, dependencies |-> d, devDependencies |-> v]) :
              d \in DependencyMaps, v \in DevDependencyMaps}

ClassifyInit ==
    /\ cFiles \in SeqsUpTo(ClassifyNames, MaxFiles)
    /\ cPkg \in Manifests
    /\ ~ListIncludes(cFiles, PACKAGE_JSON) => cPkg = None
    /\ cResult = None
    /\ MatchIdle /\ CacheIdle /\ ScanIdle /\ HierIdle /\ ParseIdle

Classify ==
    /\ cResult = None
    /\ cResult' = Some(analyzeDirectory(DirApp, cFiles, cPkg))
    /\ UNCHANGED <<cFiles, cPkg, matchVars, cacheVars, scanVars, hierVars, parseVars>>

ClassifyNext == Classify

SpecClassify == ClassifyInit /\ [][ClassifyNext]_vars

\* the dependency names the manifest rule knows, in the order it tests
\* them, and the type each one gives
DependencyOrder ==
    <<"typescript", "react", "vue", "angular", "next", "nuxt", "express", "nestjs", "gatsby">>

DependencyType ==
    <<"typescript", "react", "vue", "angular", "nextjs", "nuxtjs", "express", "nestjs", "gatsby">>

\* the type of the first name of DependencyOrder that the manifest declares
\* under dependencies or devDependencies
FirstDeclared(manifest) ==
    LET declared == DOMAIN manifest.dependencies \cup DOMAIN manifest.devDependencies
        hits == {i \in 1..Len(DependencyOrder) : DependencyOrder[i] \in declared}
    IN  IF hits = {} THEN "nodejs"
        ELSE DependencyType[CHOOSE i \in hits : \A j \in hits : i <= j]

\* C19: a file list that contains package.json is resolved by the manifest
\* rule whatever other files are present: the type is the one of the first
\* dependency, in the order typescript, react, vue, angular, next, nuxt,
\* express, nestjs, gatsby, that the manifest declares (nodejs when it
\* declares none, javascript when it cannot be read), never the type of a
\* later family.
C19_ManifestRuleFirstPresentWins ==
    (/\ cResult # None
     /\ ListIncludes(LowerAll(cFiles), PACKAGE_JSON)) =>
        /\ cResult[1] # None
        /\ cResult[1][1].type =
              (IF cPkg = None \/ ~cPkg[1].parses THEN "javascript"
               ELSE FirstDeclared(cPkg[1]))

\* the name is an indicator: one of the fixed names, or a name with one of
\* the source extensions, letter case ignored
IsIndicatorName(name) ==
    \/ toLowerCase(name) \in projectFiles
    \/ /\ Len(name) >= 3
       /\ toLowerCase(SubSeq(name, Len(name) - 2, Len(name))) \in SourceExtensions

\* what classify has to return for a list of file names: nothing exactly
\* when no name is an indicator
ClassifiedAsClaimed(files, result) ==
    /\ result = None <=> \A i \in 1..Len(files) : ~IsIndicatorName(files[i])
    /\ (result # None /\ \A i \in 1..Len(files) : toLowerCase(files[i]) \in {MAIN_PY, NOTES_TXT, README})
          => result[1].type = "unknown"

\* C20: classify returns null iff the file-name list, letter case ignored,
\* holds none of the fixed indicator names and no name with a recognized
\* source extension; otherwise it returns a record, of type 'unknown' when
\* an indicator matched and no family did (main.py alone); and the scanner
\* still descends into a directory that was classified null.
C20_NullIffNoIndicator ==
    /\ cResult # None => ClassifiedAsClaimed(cFiles, cResult[1])
    /\ scan # None =>
          \A id \in DOMAIN scan[1].tasks :
              LET task == scan[1].tasks[id]
              IN  /\ task.classified =>
                        ClassifiedAsClaimed(
                            fileNamesFrom(id[2], readdirSync(disk, id[2]), 1,
                                          config[1].excludePatterns),
                            task.found)
                  /\ (task.classified /\ task.found = None /\ task.pc # "analyzed") =>
                        \A e \in Directories :
                            (e = JoinPath(id[2], LastSegment(e)) /\ ~ExcludedByRule(e))
                                => <<id[1], e>> \in DOMAIN scan[1].tasks

\* /c holds no indicator and was classified null; the scan went on into
\* /c/app, and /c/app/lib, which holds main.py alone, is recorded as unknown
C20_Witness ==
    /\ scan # None
    /\ <<1, DirC>> \in DOMAIN scan[1].tasks
    /\ scan[1].tasks[<<1, DirC>>].classified
    /\ scan[1].tasks[<<1, DirC>>].found = None
    /\ <<1, DirApp>> \in DOMAIN scan[1].tasks
    /\ <<1, DirLib>> \in DOMAIN scan[1].tasks
    /\ scan[1].tasks[<<1, DirLib>>].found # None
    /\ scan[1].tasks[<<1, DirLib>>].found[1].type = "unknown"


-----------------------------------------------------------------------------
(* SpecRescan: repeated scans of one tree, with the shared ignore-file     *)
(* cache enabled or disabled, while ignore files are rewritten between     *)
(* the scans; the ignore file of /c/app/lib may be unreadable              *)

RescanConfig(cacheEnabled, rootFolders) ==
    [rootFolders |-> rootFolders,
     excludePatterns |-> <<>>,
     gitignore |-> [enabled |-> TRUE, cacheEnabled |-> cacheEnabled,
                    cacheSize |-> 0, cacheTTL |-> 0]]

\* every directory from /c down to /c/app/lib/x holds an ignore file; the
\* one of /c/app/lib ("*lib") may be unreadable, the one of /c/app/lib/x
\* holds "*x"; /c/web is there
RescanDisks ==
    { [p \in IgnorePaths \cup {GitignorePathOf(DirX)} |->
          [exists |-> TRUE,
           readable |-> (p # GitignorePathOf(DirLib)) \/ libReadable,
           mtime |-> 0,
           content |-> IF p = GitignorePathOf(DirX) THEN 2 ELSE 1]]
        @@ [q \in OptionalDirs |-> [exists |-> TRUE, readable |-> TRUE]] :
      libReadable \in BOOLEAN }

\* the root folder lists: one root, and a root that follows a root beneath it
RescanRootFolderLists == {<<DirC>>, <<DirLib, DirC>>}

RescanInit ==
    /\ config \in {Some(RescanConfig(cacheEnabled, rootFolders)) :
                      cacheEnabled \in BOOLEAN, rootFolders \in RescanRootFolderLists}
    /\ scan = None
    /\ runs = <<>>
    /\ disk \in RescanDisks
    /\ now = 0
    /\ cache = <<>>
    /\ options = [cacheEnabled |-> TRUE, cacheSize |-> 0, cacheTTL |-> 0]
    /\ hitCount = 0
    /\ missCount = 0
    /\ parsed = None
    /\ lastOp = NoOp
    /\ steps = 0
    /\ MatchIdle /\ HierIdle /\ UnitsIdle

\* the ignore files another process rewrites between two scans
RewrittenPaths == {GitignorePathOf(DirLib)}

\* another process replaces an ignore file by one without patterns while no
\* scan runs; the new file carries the time of the write
RewriteIgnoreFile(p) ==
    /\ scan = None
    /\ FileExists(disk, p)
    /\ disk[p].content = 1
    /\ disk' = [disk EXCEPT ![p] = [exists |-> TRUE, readable |-> disk[p].readable,
                                    mtime |-> now, content |-> 0]]
    /\ UNCHANGED <<now, cache, options, hitCount, missCount, parsed, lastOp, steps,
                   scanVars, matchVars, hierVars, parseVars, classVars>>

\* time passes between two scans
RescanTick ==
    /\ scan = None
    /\ now = 0
    /\ now' = 1
    /\ UNCHANGED <<disk, cache, options, hitCount, missCount, parsed, lastOp, steps,
                   scanVars, matchVars, hierVars, parseVars, classVars>>

\* the values of options.maxDepth: not given (the configured depth), and 2
RescanDepthOptions == {0, 2}

RescanNext ==
    \/ \E d \in RescanDepthOptions : StartDiscover(d)
    \/ \E id \in TaskIds : ResumeScan(id)
    \/ \E id \in TaskIds : ReturnScan(id)
    \/ FinishDiscover
    \/ \E p \in RewrittenPaths : RewriteIgnoreFile(p)
    \/ RescanTick

SpecRescan == RescanInit /\ [][RescanNext]_vars

\* the set of records a run returned
RecordsOf(run) == {run.projects[k] : k \in 1..Len(run.projects)}

\* the records a scan to maxDepth returns for the present filesystem when
\* every ignore file is read from disk: the scan that starts from an empty
\* cache, or runs with caching disabled
FreshRecords(maxDepth) ==
    {analyzeDirectory(p, fileNamesFrom(p, StaticEntries(p), 1, config[1].excludePatterns),
                      Manifest(p))[1] :
       p \in {q \in Directories \cup {o \in OptionalDirs : existsSync(disk, o)} :
                \E r \in 1..Len(config[1].rootFolders) :
                    ExpectedProject(config[1].rootFolders[r], maxDepth, q)}}

\* C21: for an unchanged filesystem and fixed options a scan returns the
\* same set of records whatever the shared cache held when it started and
\* whether caching is enabled: every scan that finishes returns the records
\* of the scan that reads every ignore file from disk.
C21_ScansAgreeWhateverTheCache ==
    [][(scan # None /\ scan' = None)
          => RecordsOf(runs'[Len(runs')]) = FreshRecords(scan[1].maxDepth)]_vars


-----------------------------------------------------------------------------
(* the cache calls of concurrent scanDirectory calls                       *)

\* the get and set calls the continuation of task id makes on the shared
\* cache when it resumes after `await analyzeDirectory`
CacheCalls(id) ==
    directoriesFrom(Manager(cache, options, hitCount, missCount), disk,
                    id[2], readdirSync(disk, id[2]), 1,
                    config[1].excludePatterns, config[1].gitignore, now, <<>>).mgr.calls

\* the scanDirectory calls that wait to resume after `await analyzeDirectory`
Resumable == {id \in DOMAIN scan[1].tasks : scan[1].tasks[id].pc = "analyzed"}

\* in calls every get that misses a file that parses is followed at once by
\* the set of the same path, and every set follows such a get
MissThenSet(calls) ==
    \A i \in 1..Len(calls) :
        /\ (calls[i].op = "get" /\ ~calls[i].hit
               /\ ~parseGitignoreFile(disk, calls[i].path, now).error)
              => (i < Len(calls) /\ calls[i + 1].op = "set"
                                 /\ calls[i + 1].path = calls[i].path)
        /\ calls[i].op = "set"
              => (i > 1 /\ calls[i - 1].op = "get" /\ ~calls[i - 1].hit
                        /\ calls[i - 1].path = calls[i].path)

\* a step that touches the shared cache is the continuation of one
\* scanDirectory call: that call alone moves, from "analyzed" to "awaiting"
OneCallTouchesCache ==
    (scan # None
        /\ <<cache, options, hitCount, missCount>> # <<cache', options', hitCount', missCount'>>)
      => /\ scan' # None
         /\ \E id \in Resumable :
              /\ scan'[1].tasks[id].pc = "awaiting"
              /\ \A other \in DOMAIN scan[1].tasks \ {id} :
                    scan'[1].tasks[other] = scan[1].tasks[other]

\* C22: concurrent scanDirectory calls never interleave inside a cache
\* read-then-write: the get that misses and the set of the same ignore file
\* are made by one continuation, next to each other, and a step that touches
\* the cache runs exactly one continuation.
C22_MissAndSetAreOneStep ==
    /\ [](scan # None => \A id \in Resumable : MissThenSet(CacheCalls(id)))
    /\ [][OneCallTouchesCache]_vars

\* two scanDirectory calls wait to resume and one of them will miss and set
C22_Witness ==
    /\ scan # None
    /\ Cardinality(Resumable) >= 2
    /\ \E id \in Resumable :
          \E i \in 1..Len(CacheCalls(id)) : CacheCalls(id)[i].op = "set"


-----------------------------------------------------------------------------
(* the depth limit of the hierarchy display                                *)

\* C23: the hierarchy depth limit drops every node deeper than the bound:
\* the table shown for --depth d holds no project whose level is above d.
C23_NoNodeBelowDepthLimit ==
    (hOut # None /\ hOut[1].op = "display" /\ hOut[1].arg.maxDepth # None) =>
        \A k \in 1..Len(hOut[1].result) :
            hNodes[1].nodeMap[hOut[1].result[k]].level <= hOut[1].arg.maxDepth[1]


-----------------------------------------------------------------------------
(* the depth bound of the traversal                                        *)

\* the number of directory levels between root and path
DepthBelow(root, path) == Len(Segments(path)) - Len(Segments(root))

\* C24: with the root at depth 0, scanDirectory neither lists nor classifies
\* a directory at depth >= maxDepth, so every record a scan returns is for a
\* directory at depth below maxDepth under its root.
C24_NothingAtOrBelowMaxDepth ==
    /\ scan # None =>
          \A id \in DOMAIN scan[1].tasks :
              \E task \in {scan[1].tasks[id]} :
                  /\ task.depth = DepthBelow(scan[1].roots[id[1]], id[2])
                  /\ task.depth >= scan[1].maxDepth
                        => /\ ~task.listed /\ ~task.classified
                           /\ task.found = None /\ task.children = <<>>
                  /\ \A k \in 1..Len(task.projects) :
                        /\ InOrUnder(task.projects[k].path, scan[1].roots[id[1]])
                        /\ DepthBelow(scan[1].roots[id[1]], task.projects[k].path)
                              < scan[1].maxDepth
    /\ \A n \in 1..Len(runs) :
          \A k \in 1..Len(runs[n].projects) :
              \E r \in 1..Len(config[1].rootFolders) :
                  /\ InOrUnder(runs[n].projects[k].path, config[1].rootFolders[r])
                  /\ DepthBelow(config[1].rootFolders[r], runs[n].projects[k].path)
                        < effectiveMaxDepth(runs[n].maxDepthOption)

\* the traversal from /c with maxDepth 2 reached /c/app/lib, which holds a
\* project, at depth 2 and returned without listing it
C24_Witness ==
    /\ scan # None
    /\ scan[1].maxDepth = 2
    /\ <<1, DirLib>> \in DOMAIN scan[1].tasks
    /\ scan[1].roots[1] = DirC
    /\ scan[1].tasks[<<1, DirLib>>].depth = 2
    /\ scan[1].tasks[<<1, DirLib>>].pc = "returned"
    /\ ~scan[1].tasks[<<1, DirLib>>].listed
    /\ hasProjectIndicators(
          LowerAll(fileNamesFrom(DirLib, StaticEntries(DirLib), 1, config[1].excludePatterns)))


-----------------------------------------------------------------------------
(* the frame of cleanup(), set() and the counters of the cache             *)

\* the entries of cache c, as a set
Entries(c) == {c[i] : i \in 1..Len(c)}

\* C25: cleanup() removes exactly the entries whose file no longer exists
\* or has an mtime newer than the entry's cachedAt; every other entry stays
\* with its value and cachedAt, and no get() is involved: the counters and
\* the options stay as they are.
C25_CleanupRemovesExactlyTheInvalid ==
    [][lastOp'.op = "cleanup" =>
          /\ Entries(cache') =
                {e \in Entries(cache) :
                    FileExists(disk, e.path) /\ disk[e.path].mtime <= e.cachedAt}
          /\ Len(cache') = Cardinality(Entries(cache'))
          /\ UNCHANGED <<hitCount, missCount, options, disk>>]_vars

\* a cleanup() that removed an entry whose file exists with a newer mtime
\* and kept another entry
C25_Witness ==
    /\ lastOp.op = "cleanup"
    /\ cache # <<>>
    /\ \E p \in lastOp.removed : FileExists(disk, p)


\* C28: set(path, file) for a path that is already cached replaces only the
\* entry of that path: every other cached path stays with its file and its
\* cachedAt, also when the cache holds cacheSize entries.
C28_SetOfCachedPathKeepsOthers ==
    [][\A p \in IgnorePaths :
          (lastOp'.op = "set" /\ lastOp'.path = p /\ p \in CachedPaths(cache))
             => \A e \in Entries(cache) : e.path # p => e \in Entries(cache')]_vars


\* C29: every get() increments exactly one of hitCount and missCount,
\* hitCount exactly when it returns a file; clear() sets both to zero; and
\* set, invalidate, cleanup, has, updateOptions and everything else change
\* neither. So hitCount + missCount is the number of get() calls since the
\* construction or the last clear().
C29_EveryGetCountsOnce ==
    [][/\ \A p \in IgnorePaths :
            (lastOp'.op = "get" /\ lastOp'.path = p) =>
                IF get(cache, options, disk, p, now).file # None
                THEN hitCount' = hitCount + 1 /\ missCount' = missCount
                ELSE hitCount' = hitCount /\ missCount' = missCount + 1
       /\ lastOp'.op = "clear" => hitCount' = 0 /\ missCount' = 0
       /\ lastOp'.op \notin {"get", "clear"} => UNCHANGED <<hitCount, missCount>>]_vars

\* a get() that returned a file after an earlier get() was cleared away
C29_Witness ==
    /\ lastOp.op = "get" /\ lastOp.hit
    /\ hitCount = 1 /\ missCount = 0
    /\ steps = MaxSteps


-----------------------------------------------------------------------------
(* ignore files that cannot be read                                        *)

\* the ignore file of directory e exists and can be read
OwnFileReadable(e) ==
    /\ FileExists(disk, GitignorePathOf(e))
    /\ disk[GitignorePathOf(e)].readable

\* the ignore file of directory e exists and cannot be read
OwnFileUnreadable(e) ==
    /\ FileExists(disk, GitignorePathOf(e))
    /\ ~disk[GitignorePathOf(e)].readable

\* the call that listed the parent of e has filtered its subdirectories
ParentResumed(r, e) ==
    \E q \in Directories :
        /\ e = JoinPath(q, LastSegment(e))
        /\ <<r, q>> \in DOMAIN scan[1].tasks
        /\ scan[1].tasks[<<r, q>>].listed
        /\ scan[1].tasks[<<r, q>>].pc # "analyzed"

\* C26: an ignore file that cannot be read contributes no patterns and is
\* never stored in the cache -- the cache holds no file with error set --
\* so the directory it belongs to is scanned like one without ignore file,
\* while the patterns of the other, readable ignore files still exclude the
\* directories they match from the traversal that meets them.
C26_UnreadableIgnoreFileIsSkipped ==
    /\ \A e \in Entries(cache) : ~e.file.error /\ disk[e.path].readable
    /\ scan # None =>
          \A r \in 1..Len(scan[1].roots) :
              \A e \in Directories :
                  /\ (/\ ParentResumed(r, e)
                      /\ OwnFileUnreadable(e)
                      /\ ~IsDefaultExcluded(e)
                      /\ ~shouldExclude(e, config[1].excludePatterns))
                        => <<r, e>> \in DOMAIN scan[1].tasks
                  /\ (/\ Encountered(r, e)
                      /\ OwnFileReadable(e)
                      /\ matchPath(e, FilePatterns(disk[GitignorePathOf(e)].content),
                                   TRUE).excluded)
                        => \A id \in DOMAIN scan[1].tasks : id[1] = r => Untouched(id, e)

\* /c/app/lib, whose ignore file "*lib" cannot be read, was listed; beneath
\* it /c/app/lib/x was left out by its own ignore file, which is cached
C26_Witness ==
    /\ scan # None
    /\ OwnFileUnreadable(DirLib)
    /\ <<1, DirLib>> \in DOMAIN scan[1].tasks
    /\ scan[1].tasks[<<1, DirLib>>].listed
    /\ scan[1].tasks[<<1, DirLib>>].pc = "awaiting"
    /\ <<1, DirX>> \notin DOMAIN scan[1].tasks
    /\ GitignorePathOf(DirX) \in CachedPaths(cache)
    /\ missCount >= 3


-----------------------------------------------------------------------------
(* a manifest that cannot be read or parsed                                *)

\* a package.json that parses and declares no dependency at all
BareManifest == Some([parses |-> TRUE, dependencies |-> <<>>, devDependencies |-> <<>>])

\* C27: when package.json cannot be read or parsed the directory is still
\* recorded, with the type the same directory receives for a package.json
\* that parses and declares none of the recognized dependencies.
C27_UnparsableManifestGetsGenericType ==
    (/\ cResult # None
     /\ ListIncludes(LowerAll(cFiles), PACKAGE_JSON)
     /\ cPkg = None \/ ~cPkg[1].parses)
        => /\ cResult[1] # None
           /\ cResult[1][1].type = analyzeDirectory(DirApp, cFiles, BareManifest)[1].type


-----------------------------------------------------------------------------
(* the order of the records a scan returns                                 *)

\* the paths of a list of records, in order
PathsOf(projects) == [k \in 1..Len(projects) |-> projects[k].path]

\* the place of subdirectory e in the listing of its parent q
ListingIndex(q, e) ==
    CHOOSE n \in 1..Len(readdirSync(disk, q)) :
        JoinPath(q, readdirSync(disk, q)[n].name) = e

\* e1 and e2 are entries of one directory and e1 is listed before e2
ListedBefore(e1, e2) ==
    \E q \in Directories :
        /\ e1 = JoinPath(q, LastSegment(e1))
        /\ e2 = JoinPath(q, LastSegment(e2))
        /\ ListingIndex(q, e1) < ListingIndex(q, e2)

\* paths is a pre-order of directories in and under top: no path twice, a
\* directory before the directories beneath it, the paths of one subtree
\* next to each other, the subtrees of one directory in listing order
PreOrder(paths, top) ==
    /\ \A i \in 1..Len(paths) : InOrUnder(paths[i], top)
    /\ \A i \in 1..Len(paths) :
          \A j \in 1..Len(paths) \ {i} :
              /\ paths[i] # paths[j]
              /\ InOrUnder(paths[j], paths[i]) => i < j
              /\ \A e1 \in {e \in Directories \cup OptionalDirs : InOrUnder(paths[i], e)} :
                    \A e2 \in {e \in Directories \cup OptionalDirs : InOrUnder(paths[j], e)} :
                        ListedBefore(e1, e2) => i < j
              /\ \A e \in {d \in Directories \cup OptionalDirs :
                                InOrUnder(paths[i], d) /\ InOrUnder(paths[j], d)} :
                    \A k \in 1..Len(paths) : (i < k /\ k < j) => InOrUnder(paths[k], e)

\* the list is made of the lists the traversals of the roots returned, in
\* the order of the roots, from root r on
RECURSIVE RootsInOrder(_, _, _, _)
RootsInOrder(projects, tasks, roots, r) ==
    IF r > Len(roots) THEN projects = <<>>
    ELSE \E n \in {Len(tasks[<<r, roots[r]>>].projects)} :
            /\ n <= Len(projects)
            /\ SubSeq(projects, 1, n) = tasks[<<r, roots[r]>>].projects
            /\ RootsInOrder(SubSeq(projects, n + 1, Len(projects)), tasks, roots, r + 1)

\* C30, per root: although the sub-scans of sibling directories run
\* concurrently, the list every scanDirectory call returns is in pre-order
\* -- a directory before its descendants, each subtree contiguous, sibling
\* subtrees in listing order -- and the list of the scan is made of the
\* lists of the roots' traversals in the order the roots are given.
C30_PreOrderWithinEachRoot ==
    /\ [](scan # None =>
            \A id \in DOMAIN scan[1].tasks :
                PreOrder(PathsOf(scan[1].tasks[id].projects), id[2]))
    /\ [][(scan # None /\ scan' = None)
             => RootsInOrder(runs'[Len(runs')].projects, scan[1].tasks, scan[1].roots, 1)]_vars

\* C30 as stated: in the list a scan returns the record of a directory
\* precedes the records of all its descendant directories.
C30_DirectoryPrecedesDescendants ==
    \A n \in 1..Len(runs) :
        \A i, j \in 1..Len(runs[n].projects) :
            (/\ runs[n].projects[i].path # runs[n].projects[j].path
             /\ InOrUnder(runs[n].projects[j].path, runs[n].projects[i].path))
                => i < j

\* the traversal from /c returned the records of /c/app and its subtree
\* followed by the record of /c/web, whose sub-scan ran at the same time
C30_Witness ==
    /\ scan # None
    /\ <<1, DirC>> \in DOMAIN scan[1].tasks
    /\ scan[1].tasks[<<1, DirC>>].pc = "returned"
    /\ PathsOf(scan[1].tasks[<<1, DirC>>].projects) = <<DirApp, DirLib, DirWeb>>
    /\ \E id \in DOMAIN scan[1].tasks : scan[1].tasks[id].pc = "returned" /\ id[2] = DirWeb

=============================================================================
